---- MODULE Spec2Model ----
(***************************************************************************)
(* A model of the mlang semantic analyzer (src/src/lang/analyzer.rs).      *)
(*                                                                         *)
(* The statement slice `opcodes` is the IR the parser hands over.  A Stat  *)
(* is [tag, node]; identifiers are [span, name] (Rust `Ident(Span,String)`)*)
(* and Option<T> is a sequence of length 0 (None) or 1 (Some).  Slice      *)
(* indices are zero-based as in the source; opcodes[index + 1] is the      *)
(* statement at `index`.                                                   *)
(***************************************************************************)
EXTENDS Integers, Sequences, FiniteSets, TLC

VARIABLES
    opcodes,    \* the statement slice, rewritten in place by `check`
    parsed,     \* the slice as the parser produced it (never changes)
    analyzer,   \* the SemanticAnalyzer: its three tables, `errors`, and the diagnostics it logged
    updates,    \* the deferred replacements collected by `check`
    index,      \* position of the loop of `check`
    pc,         \* "parse" | "check" | "return" | "done" | "panic", and the
                \* positions of the driver: "source" | "parsing" | "codegen" | "exit"
    result,     \* Option<bool>: the value semantic_analyze returned
    ctx,        \* the ParseContext: the source, the offset, and what `parse` returned
    codegen,    \* the CodeGen builder and the locals of CodeGen::codegen
    fs,         \* the file system under the target directory, and the
                \* operations performed on it in order
    output,     \* Option<Result<(), ParseError>>: the value `compile` returned
    visited     \* the last call of a generated visitor: its input and what it returned

\* the state of the driver, the generator and the generated code
driver == <<ctx, codegen, fs, output, visited>>

vars == <<opcodes, parsed, analyzer, updates, index, pc, result, ctx, codegen, fs, output, visited>>

----------------------------------------------------------------------------
(* IR constructors *)

Ident(span, name) == [span |-> span, name |-> name]

None == <<>>
Some(v) == <<v>>

NodeTags == {"Element", "Leaf", "Attr", "Data"}

----------------------------------------------------------------------------
(* Diagnostics: AnalyzerError values, and the error sink *)

Duplicate(name, span) == [error |-> "Duplicate", name |-> name, span |-> span]
Unknown(name) == [error |-> "Unknown", name |-> name]
GroupErr(name, span) == [error |-> "Group", name |-> name, span |-> span]
Merge(name, span) == [error |-> "Merge", name |-> name, span |-> span]
VariableOption(name) == [error |-> "VariableOption", name |-> name]
Rename == [error |-> "Rename"]

\* log::error!(target: ANALYZER_ERROR, span = at; "{}", err)
log_error(self, at, err) ==
    [self EXCEPT !.log = Append(@, [at |-> at, err |-> err])]

count_error(self) == [self EXCEPT !.errors = @ + 1]

----------------------------------------------------------------------------
(* The three tables: name -> (span, index), as functions on the names held *)

Insert(table, ident, idx) ==
    (ident.name :> [span |-> ident.span, index |-> idx]) @@ table

Lookup(table, ident) ==
    IF ident.name \in DOMAIN table THEN Some(table[ident.name].index) ELSE None

\* SymbolTable::add reporting the span of the declaration being added
SymbolTable_add_new_span(self, idx, ident) ==
    LET old == self.symbol_table
        s1 == [self EXCEPT !.symbol_table = Insert(old, ident, idx)]
    IN  IF ident.name \in DOMAIN old
        THEN [self |-> log_error(s1, ident.span, Duplicate(ident.name, ident.span)),
              ret |-> FALSE]
        ELSE [self |-> s1, ret |-> TRUE]

\* SymbolTable::add: the map keeps the new entry; the replaced entry's span
\* is reported.
SymbolTable_add(self, idx, ident) ==
    LET old == self.symbol_table
        s1 == [self EXCEPT !.symbol_table = Insert(old, ident, idx)]
    IN  IF ident.name \in DOMAIN old
        THEN [self |-> log_error(s1, old[ident.name].span,
                                 Duplicate(ident.name, old[ident.name].span)),
              ret |-> FALSE]
        ELSE [self |-> s1, ret |-> TRUE]

SymbolTable_lookup(self, ident) == Lookup(self.symbol_table, ident)

MixinTable_add(self, idx, ident) ==
    [self EXCEPT !.merger = Insert(@, ident, idx)]

MixinTable_lookup(self, ident) == Lookup(self.merger, ident)

GroupTable_add(self, idx, ident) ==
    [self EXCEPT !.digraph_analyzer = Insert(@, ident, idx)]

GroupTable_lookup(self, ident) == Lookup(self.digraph_analyzer, ident)

\* SemanticAnalyzer::default()
SemanticAnalyzer_default ==
    [symbol_table |-> << >>, merger |-> << >>, digraph_analyzer |-> << >>,
     errors |-> 0, log |-> << >>]

----------------------------------------------------------------------------
(* Pass 1: build_index *)

\* `if !self.symbol_table.add(index, ident) { self.errors += 1 }`
add_symbol(self, idx, ident) ==
    LET r == SymbolTable_add(self, idx, ident)
    IN  IF r.ret THEN r.self ELSE count_error(r.self)

\* build_index entering every declaration that may carry fields into the
\* mixin table, and every declaration into the group table
build_index_stat_every_decl(self, idx, opcode) ==
    CASE opcode.tag \in NodeTags \cup {"Mixin"} ->
            MixinTable_add(add_symbol(self, idx, opcode.node.ident), idx, opcode.node.ident)
      [] opcode.tag \in {"Enum", "Group"} ->
            GroupTable_add(add_symbol(self, idx, opcode.node.ident), idx, opcode.node.ident)
      [] opcode.tag = "ApplyTo" -> self
      [] opcode.tag = "ChildrenOf" -> self

\* one iteration of the loop of build_index
build_index_stat(self, idx, opcode) ==
    CASE opcode.tag \in NodeTags -> add_symbol(self, idx, opcode.node.ident)
      [] opcode.tag = "Mixin" ->
            MixinTable_add(add_symbol(self, idx, opcode.node.ident), idx, opcode.node.ident)
      [] opcode.tag = "Enum" -> add_symbol(self, idx, opcode.node.ident)
      [] opcode.tag = "Group" ->
            GroupTable_add(add_symbol(self, idx, opcode.node.ident), idx, opcode.node.ident)
      [] opcode.tag = "ApplyTo" -> self
      [] opcode.tag = "ChildrenOf" -> self

RECURSIVE build_index_from(_, _, _)
build_index_from(self, ops, idx) ==
    IF idx >= Len(ops) THEN self
    ELSE build_index_from(build_index_stat(self, idx, ops[idx + 1]), ops, idx + 1)

build_index(self, ops) == build_index_from(self, ops, 0)

----------------------------------------------------------------------------
(* Fields::append (ir.rs): two field lists of the same shape are merged, the *)
(* other list's fields first; lists of different shapes are a structured     *)
(* error that hands the receiver back.                                       *)

Ok(v) == [ok |-> TRUE, value |-> v]
Err(v) == [ok |-> FALSE, value |-> v]

Fields_append(fields, other) ==
    IF fields.shape = other.shape
    THEN Ok([shape |-> fields.shape, items |-> other.items \o fields.items])
    ELSE Err(fields)

----------------------------------------------------------------------------
(* Pass 2: the checks.  Every check takes the analyzer and returns it as   *)
(* changed (`self`) next to the value the Rust function returns (`ret`).   *)

\* symbol_check reporting an unknown symbol without counting it
symbol_check_uncounted(self, ops, ident, expect_type) ==
    LET found == SymbolTable_lookup(self, ident)
    IN  IF found # None
        THEN LET target == ops[found[1] + 1]
             IN  IF target.tag = "Group"
                 THEN [self |-> IF expect_type
                                THEN log_error(count_error(self), ident.span,
                                               GroupErr(target.node.ident.name,
                                                        target.node.ident.span))
                                ELSE self,
                       ret |-> FALSE]
                 ELSE [self |-> self, ret |-> TRUE]
        ELSE [self |-> log_error(self, ident.span, Unknown(ident.name)),
              ret |-> FALSE]

symbol_check(self, ops, ident, expect_type) ==
    LET found == SymbolTable_lookup(self, ident)
    IN  IF found # None
        THEN LET target == ops[found[1] + 1]
             IN  IF target.tag = "Group"
                 THEN [self |-> IF expect_type
                                THEN log_error(count_error(self), ident.span,
                                               GroupErr(target.node.ident.name,
                                                        target.node.ident.span))
                                ELSE self,
                       ret |-> FALSE]
                 ELSE [self |-> self, ret |-> TRUE]
        ELSE [self |-> log_error(count_error(self), ident.span, Unknown(ident.name)),
              ret |-> FALSE]

RECURSIVE type_check(_, _, _)
\* type_check that does not look inside an array type
type_check_skip_array(self, ops, ty) ==
    CASE ty.type = "Data" -> symbol_check(self, ops, ty.ident, TRUE).self
      [] ty.type = "ListOf" -> type_check(self, ops, ty.component)
      [] OTHER -> self

type_check(self, ops, ty) ==
    CASE ty.type = "Data" -> symbol_check(self, ops, ty.ident, TRUE).self
      [] ty.type = "ListOf" -> type_check(self, ops, ty.component)
      [] ty.type = "ArrayOf" -> type_check(self, ops, ty.component)
      [] OTHER -> self

\* `for field in fields.iter() { self.type_check(opcodes, field.ty()) }`
RECURSIVE fields_check(_, _, _)
fields_check(self, ops, items) ==
    IF items = << >> THEN self
    ELSE fields_check(type_check(self, ops, Head(items).ty), ops, Tail(items))

\* the match on call.target of node_check
call_check(self, call) ==
    CASE call.target.name \in {"option", "variable", "init"} ->
            IF Len(call.params) # 0
            THEN log_error(count_error(self), call.target.span,
                           VariableOption(call.target.name))
            ELSE self
      [] call.target.name = "rename" ->
            IF Len(call.params) # 1
            THEN log_error(self, call.target.span, Rename)
            ELSE self
      [] OTHER -> self

RECURSIVE calls_check(_, _)
calls_check(self, calls) ==
    IF calls = << >> THEN self
    ELSE calls_check(call_check(self, Head(calls)), Tail(calls))

\* `for property in &node.properties { for call in &property.calls {..} }`
RECURSIVE properties_check(_, _)
properties_check(self, properties) ==
    IF properties = << >> THEN self
    ELSE properties_check(calls_check(self, Head(properties).calls), Tail(properties))

\* mixin_check merging the node's fields into the mixin's
mixin_check_swapped(self, ops, node) ==
    IF node.mixin # None
    THEN LET mixin == node.mixin[1]
             found == MixinTable_lookup(self, mixin)
         IN  IF found # None
             THEN LET target == ops[found[1] + 1]
                  IN  IF target.tag = "Mixin"
                      THEN LET r == Fields_append(target.node.fields, node.fields)
                           IN  [self |-> IF r.ok THEN self
                                         ELSE log_error(self, node.ident.span,
                                                        Merge(target.node.ident.name,
                                                              target.node.ident.span)),
                                ret |-> Some([node EXCEPT !.mixin = None,
                                                          !.fields = r.value]),
                                panic |-> FALSE]
                      ELSE [self |-> self, ret |-> None, panic |-> TRUE]
             ELSE [self |-> log_error(self, mixin.span, Unknown(mixin.name)),
                   ret |-> None, panic |-> FALSE]
    ELSE [self |-> self, ret |-> None, panic |-> FALSE]

\* mixin_check naming the reference, not the declaration, in Merge
mixin_check_reference_span(self, ops, node) ==
    IF node.mixin # None
    THEN LET mixin == node.mixin[1]
             found == MixinTable_lookup(self, mixin)
         IN  IF found # None
             THEN LET target == ops[found[1] + 1]
                  IN  IF target.tag = "Mixin"
                      THEN LET r == Fields_append(node.fields, target.node.fields)
                           IN  [self |-> IF r.ok THEN self
                                         ELSE log_error(self, node.ident.span,
                                                        Merge(mixin.name, mixin.span)),
                                ret |-> Some([node EXCEPT !.mixin = None,
                                                          !.fields = r.value]),
                                panic |-> FALSE]
                      ELSE [self |-> self, ret |-> None, panic |-> TRUE]
             ELSE [self |-> log_error(self, mixin.span, Unknown(mixin.name)),
                   ret |-> None, panic |-> FALSE]
    ELSE [self |-> self, ret |-> None, panic |-> FALSE]

\* mixin_check leaving the mixin clause on the node it returns
mixin_check_keeps_slot(self, ops, node) ==
    IF node.mixin # None
    THEN LET mixin == node.mixin[1]
             found == MixinTable_lookup(self, mixin)
         IN  IF found # None
             THEN LET target == ops[found[1] + 1]
                  IN  IF target.tag = "Mixin"
                      THEN LET r == Fields_append(node.fields, target.node.fields)
                           IN  [self |-> IF r.ok THEN self
                                         ELSE log_error(self, node.ident.span,
                                                        Merge(target.node.ident.name,
                                                              target.node.ident.span)),
                                ret |-> Some([node EXCEPT !.fields = r.value]),
                                panic |-> FALSE]
                      ELSE [self |-> self, ret |-> None, panic |-> TRUE]
             ELSE [self |-> log_error(self, mixin.span, Unknown(mixin.name)),
                   ret |-> None, panic |-> FALSE]
    ELSE [self |-> self, ret |-> None, panic |-> FALSE]

\* the `if let Some(mixin) = &node.mixin` part of node_check
mixin_check(self, ops, node) ==
    IF node.mixin # None
    THEN LET mixin == node.mixin[1]
             found == MixinTable_lookup(self, mixin)
         IN  IF found # None
             THEN LET target == ops[found[1] + 1]
                  IN  IF target.tag = "Mixin"
                      THEN LET r == Fields_append(node.fields, target.node.fields)
                           IN  [self |-> IF r.ok THEN self
                                         ELSE log_error(self, node.ident.span,
                                                        Merge(target.node.ident.name,
                                                              target.node.ident.span)),
                                ret |-> Some([node EXCEPT !.mixin = None,
                                                          !.fields = r.value]),
                                panic |-> FALSE]
                      ELSE [self |-> self, ret |-> None, panic |-> TRUE]
             ELSE [self |-> log_error(self, mixin.span, Unknown(mixin.name)),
                   ret |-> None, panic |-> FALSE]
    ELSE [self |-> self, ret |-> None, panic |-> FALSE]

node_check(self, ops, node) ==
    mixin_check(properties_check(fields_check(self, ops, node.fields.items),
                                 node.properties),
                ops, node)

\* enum_check: the field types of every variant
RECURSIVE enum_check(_, _, _)
enum_check(self, ops, variants) ==
    IF variants = << >> THEN self
    ELSE enum_check(fields_check(self, ops, Head(variants).fields.items),
                    ops, Tail(variants))

RECURSIVE group_check(_, _, _)
\* group_check asking for a link endpoint instead of a type: nested groups pass
group_check_as_endpoint(self, ops, children) ==
    IF children = << >> THEN self
    ELSE group_check(symbol_check(self, ops, Head(children), FALSE).self,
                     ops, Tail(children))

group_check(self, ops, children) ==
    IF children = << >> THEN self
    ELSE group_check(symbol_check(self, ops, Head(children), TRUE).self,
                     ops, Tail(children))

expand_with_group(self, ops, ident) ==
    LET found == GroupTable_lookup(self, ident)
    IN  IF found # None
        THEN LET target == ops[found[1] + 1]
             IN  IF target.tag = "Group"
                 THEN [self |-> self, ret |-> Some(target.node.children), panic |-> FALSE]
                 ELSE [self |-> self, ret |-> None, panic |-> TRUE]
        ELSE [self |-> log_error(self, ident.span, Unknown(ident.name)),
              ret |-> None, panic |-> FALSE]

\* one endpoint loop of apply_to_check / children_of_check:
\* `for ident in idents { if !symbol_check(..) { expand } else { push } }`
RECURSIVE expand_idents(_, _, _, _)
\* expand_idents putting a kept identifier in front of what was collected
expand_idents_kept_first(self, ops, idents, acc) ==
    IF idents = << >> THEN [self |-> self, ret |-> acc, panic |-> FALSE]
    ELSE LET ident == Head(idents)
             c == symbol_check(self, ops, ident, FALSE)
         IN  IF ~c.ret
             THEN LET e == expand_with_group(c.self, ops, ident)
                  IN  IF e.panic THEN [self |-> e.self, ret |-> acc, panic |-> TRUE]
                      ELSE expand_idents(e.self, ops, Tail(idents),
                                         IF e.ret # None THEN acc \o e.ret[1] ELSE acc)
             ELSE expand_idents(c.self, ops, Tail(idents), <<ident>> \o acc)

expand_idents(self, ops, idents, acc) ==
    IF idents = << >> THEN [self |-> self, ret |-> acc, panic |-> FALSE]
    ELSE LET ident == Head(idents)
             c == symbol_check(self, ops, ident, FALSE)
         IN  IF ~c.ret
             THEN LET e == expand_with_group(c.self, ops, ident)
                  IN  IF e.panic THEN [self |-> e.self, ret |-> acc, panic |-> TRUE]
                      ELSE expand_idents(e.self, ops, Tail(idents),
                                         IF e.ret # None THEN acc \o e.ret[1] ELSE acc)
             ELSE expand_idents(c.self, ops, Tail(idents), Append(acc, ident))

\* apply_to_check and children_of_check share their body: both endpoint
\* lists are expanded, `from` first, and the statement is rebuilt.
link_check(self, ops, opcode) ==
    LET f == expand_idents(self, ops, opcode.node.from, << >>)
        t == expand_idents(f.self, ops, opcode.node.to, << >>)
    IN  IF f.panic THEN [self |-> f.self, ret |-> None, panic |-> TRUE]
        ELSE [self |-> t.self,
              ret |-> Some([opcode EXCEPT !.node.from = f.ret, !.node.to = t.ret]),
              panic |-> t.panic]

apply_to_check(self, ops, opcode) == link_check(self, ops, opcode)

children_of_check(self, ops, opcode) == link_check(self, ops, opcode)

\* the body of the loop of `check` for the statement at `idx`
check_stat(self, ops, idx, opcode) ==
    CASE opcode.tag \in NodeTags ->
            LET r == node_check(self, ops, opcode.node)
            IN  [self |-> r.self,
                 update |-> IF r.ret # None
                            THEN Some(<<idx, [tag |-> opcode.tag, node |-> r.ret[1]]>>)
                            ELSE None,
                 panic |-> r.panic]
      [] opcode.tag = "Mixin" ->
            LET r == node_check(self, ops, opcode.node)
            IN  [self |-> r.self, update |-> None,
                 panic |-> r.panic \/ r.ret # None]
      [] opcode.tag = "Enum" ->
            [self |-> enum_check(self, ops, opcode.node.fields),
             update |-> None, panic |-> FALSE]
      [] opcode.tag = "Group" ->
            [self |-> group_check(self, ops, opcode.node.children),
             update |-> None, panic |-> FALSE]
      [] opcode.tag = "ApplyTo" ->
            LET r == apply_to_check(self, ops, opcode)
            IN  [self |-> r.self,
                 update |-> IF r.ret # None THEN Some(<<idx, r.ret[1]>>) ELSE None,
                 panic |-> r.panic]
      [] opcode.tag = "ChildrenOf" ->
            LET r == children_of_check(self, ops, opcode)
            IN  [self |-> r.self,
                 update |-> IF r.ret # None THEN Some(<<idx, r.ret[1]>>) ELSE None,
                 panic |-> r.panic]

\* the write-back pushing each replacement at the end of the slice
apply_updates_appended(ops, ups) ==
    IF ups = << >> THEN ops ELSE ops \o [n \in 1..Len(ups) |-> ups[n][2]]

\* `for (index, update) in updates { opcodes[index] = update }`
RECURSIVE apply_updates(_, _)
apply_updates(ops, ups) ==
    IF ups = << >> THEN ops
    ELSE apply_updates([ops EXCEPT ![Head(ups)[1] + 1] = Head(ups)[2]], Tail(ups))

----------------------------------------------------------------------------
(* The inputs: statement sequences as the parser builds them.  The         *)
(* statement at slice index idx carries the spans <<idx, k>>, k counting   *)
(* the identifiers and types of the statement in source order.             *)

Prim(span, name) == [type |-> name, span |-> span]
Data(ident) == [type |-> "Data", ident |-> ident, span |-> ident.span]
ListOf(component, span) == [type |-> "ListOf", component |-> component, span |-> span]
ArrayOf(component, len, span) ==
    [type |-> "ArrayOf", component |-> component, len |-> len, span |-> span]

NamedField(ident, ty, properties) ==
    [ident |-> Some(ident), ty |-> ty, properties |-> properties]
UnnamedField(ty) == [ident |-> None, ty |-> ty, properties |-> << >>]

Named(items) == [shape |-> "Named", items |-> items]
Unnamed(items) == [shape |-> "Unnamed", items |-> items]
Unit == [shape |-> "Unit", items |-> << >>]

Call(target, params) == [target |-> target, params |-> params]
Property(calls) == [calls |-> calls]

\* Node as parse_node_body builds it; mixin is None or Some(name); the
\* identifier is the k-th token of statement idx
Node(idx, k, name, mixin, fields, properties) ==
    [span |-> idx, comments |-> << >>,
     mixin |-> IF mixin = None THEN None ELSE Some(Ident(<<idx, k + 1>>, mixin[1])),
     properties |-> properties,
     ident |-> Ident(<<idx, k>>, name),
     fields |-> fields]

NodeStat(tag, node) == [tag |-> tag, node |-> node]

EnumStat(idx, name, variants, properties) ==
    [tag |-> "Enum",
     node |-> [span |-> idx, comments |-> << >>, properties |-> properties,
               ident |-> Ident(<<idx, 0>>, name), fields |-> variants]]

Idents(idx, k, names) ==
    [n \in 1..Len(names) |-> Ident(<<idx, k + n>>, names[n])]

GroupStat(idx, name, children) ==
    [tag |-> "Group",
     node |-> [span |-> idx, comments |-> << >>, properties |-> << >>,
               ident |-> Ident(<<idx, 0>>, name),
               children |-> Idents(idx, 0, children)]]

LinkStat(tag, idx, from, to) ==
    [tag |-> tag,
     node |-> [span |-> idx, comments |-> << >>, properties |-> << >>,
               from |-> Idents(idx, 0, from),
               to |-> Idents(idx, Len(from), to)]]

\* the sequences over S of length n, and of length lo..hi
RECURSIVE SeqsOfLen(_, _)
SeqsOfLen(S, n) ==
    IF n = 0 THEN {<< >>}
    ELSE {Append(s, x) : s \in SeqsOfLen(S, n - 1), x \in S}

SeqsUpTo(S, lo, hi) == UNION {SeqsOfLen(S, n) : n \in lo..hi}

OptionOf(S) == {None} \cup {Some(x) : x \in S}

AllNodeTags == NodeTags \cup {"Mixin"}

LinkTags == {"ApplyTo", "ChildrenOf"}

----------------------------------------------------------------------------
(* Sources about mixins: node declarations of every kind, named or         *)
(* positional, with and without a mixin reference, and enums whose variant *)
(* may carry one.                                                          *)

MaxStats == 2

MixinNames == {"M", "R"}

StringField(idx, k, name) ==
    NamedField(Ident(<<idx, k>>, name), Prim(<<idx, k + 1>>, "string"), << >>)

MixinFields(idx) ==
    {Named(<<StringField(idx, 2, "x")>>),
     Named(<<StringField(idx, 2, "w"), StringField(idx, 4, "h")>>),
     Unnamed(<<UnnamedField(Prim(<<idx, 2>>, "string"))>>)}

MixinUniverse(idx) ==
    {NodeStat(tag, Node(idx, 0, name, mixin, fields, << >>)) :
        tag \in AllNodeTags, name \in MixinNames,
        mixin \in OptionOf(MixinNames), fields \in MixinFields(idx)}
    \cup
    {EnumStat(idx, name, <<Node(idx, 10, "V", mixin, Unit, << >>)>>, << >>) :
        name \in MixinNames, mixin \in OptionOf(MixinNames)}

----------------------------------------------------------------------------
(* Sources about links: elements, groups and the two link statements *)

MaxLinkStats == 3

LinkNames == {"A", "G"}

GroupChildren == SeqsUpTo(LinkNames, 0, 2)

EndpointLists == {<<"G">>, <<"A", "G">>, <<"G", "A">>}

\* one side of a link is a single identifier, the other also a tuple
EndpointPairs ==
    {pair \in EndpointLists \X EndpointLists : Len(pair[1]) = 1 \/ Len(pair[2]) = 1}

LinkUniverse(idx) ==
    {NodeStat("Element", Node(idx, 0, name, None, Unit, << >>)) : name \in LinkNames}
    \cup {GroupStat(idx, "G", children) : children \in GroupChildren}
    \cup {LinkStat(tag, idx, pair[1], pair[2]) :
            tag \in LinkTags, pair \in EndpointPairs}

----------------------------------------------------------------------------
(* Sources about field types: a declaration of every kind with one field   *)
(* whose type nests a reference up to MaxDepth deep, and groups            *)

MaxTypeStats == 2

MaxDepth == 2

TypeNames == {"D", "G"}

\* depth levels of ListOf / ArrayOf around base, alternating
RECURSIVE Wrap(_, _, _)
Wrap(depth, base, idx) ==
    IF depth = 0 THEN base
    ELSE IF depth % 2 = 1
         THEN ListOf(Wrap(depth - 1, base, idx), <<idx, 30 + depth>>)
         ELSE ArrayOf(Wrap(depth - 1, base, idx), depth, <<idx, 30 + depth>>)

TypeSet(idx) ==
    {Prim(<<idx, 3>>, "string")}
    \cup {Wrap(depth, Data(Ident(<<idx, 3>>, name)), idx) :
            depth \in 0..MaxDepth, name \in TypeNames}

TypeUniverse(idx) ==
    {NodeStat(tag, Node(idx, 0, "D", None,
                        Named(<<NamedField(Ident(<<idx, 2>>, "x"), ty, << >>)>>), << >>)) :
        tag \in AllNodeTags, ty \in TypeSet(idx)}
    \cup {EnumStat(idx, "D", <<Node(idx, 10, "V", None,
                                    Unnamed(<<UnnamedField(ty)>>), << >>)>>, << >>) :
            ty \in TypeSet(idx)}
    \cup {GroupStat(idx, name, << >>) : name \in TypeNames}

----------------------------------------------------------------------------
(* Sources about properties: one call on a declaration, on a named field,  *)
(* on an enum or on an enum variant                                        *)

MaxPropStats == 1

MaxParams == 2

CallTargets == {"option", "variable", "init", "rename", "other"}

PropCalls(idx) ==
    {<<Property(<<Call(Ident(<<idx, 20>>, target), params)>>)>> :
        target \in CallTargets, params \in SeqsUpTo({"s"}, 0, MaxParams)}

PropUniverse(idx) ==
    {NodeStat(tag, Node(idx, 0, "N", None, Unit, properties)) :
        tag \in AllNodeTags, properties \in PropCalls(idx)}
    \cup {NodeStat("Element", Node(idx, 0, "N", None,
              Named(<<NamedField(Ident(<<idx, 2>>, "x"), Prim(<<idx, 3>>, "string"),
                                 properties)>>), << >>)) :
            properties \in PropCalls(idx)}
    \cup {EnumStat(idx, "N", <<Node(idx, 10, "V", None, Unit, << >>)>>, properties) :
            properties \in PropCalls(idx)}
    \cup {EnumStat(idx, "N", <<Node(idx, 10, "V", None, Unit, properties)>>, << >>) :
            properties \in PropCalls(idx)}

----------------------------------------------------------------------------
(* Sources about duplicates: every kind of statement, two names *)

MaxDupStats == 3

DupNames == {"A", "B"}

DupUniverse(idx) ==
    {NodeStat(tag, Node(idx, 0, name, None, Unit, << >>)) :
        tag \in AllNodeTags, name \in DupNames}
    \cup {EnumStat(idx, name, << >>, << >>) : name \in DupNames}
    \cup {GroupStat(idx, name, << >>) : name \in DupNames}
    \cup {LinkStat(tag, idx, <<"A">>, <<"B">>) : tag \in LinkTags}

----------------------------------------------------------------------------
(* The driver's state before `compile` is called *)

\* ParseContext::from(source); ret is what `parse` returned, once it has
ParseContext_from(source) == [source |-> source, offset |-> 0, ret |-> None]

\* impl Default for CodeGen, with the locals of CodeGen::codegen: the
\* modules still to write, the `pub mod` items collected, the value returned
CodeGen_default ==
    [with_serde |-> TRUE, mods |-> << >>, impls |-> << >>, ret |-> None]

\* the target directory: whether it exists, its files by name, and the
\* operations performed under it, in order
FileSystem(exists) == [exists |-> exists, files |-> << >>, ops |-> << >>]

----------------------------------------------------------------------------
(* semantic_analyze as a state machine *)

Init ==
    /\ opcodes = << >>
    /\ parsed = << >>
    /\ analyzer = SemanticAnalyzer_default
    /\ updates = << >>
    /\ index = 0
    /\ pc = "parse"
    /\ result = None
    /\ ctx = ParseContext_from(<< >>)
    /\ codegen = CodeGen_default
    /\ fs = FileSystem(FALSE)
    /\ output = None
    /\ visited = None

\* parse: the next statement of the source is appended to the slice
ParseStat(stat) ==
    /\ opcodes' = Append(opcodes, stat)
    /\ UNCHANGED <<parsed, analyzer, updates, index, pc, result>>
    /\ UNCHANGED driver

\* the parser has not reached the end of the source
Parsing(max) == pc = "parse" /\ Len(opcodes) < max

Parse ==
    /\ Parsing(MaxStats)
    /\ \E stat \in MixinUniverse(Len(opcodes)) : ParseStat(stat)

ParseLink ==
    /\ Parsing(MaxLinkStats)
    /\ \E stat \in LinkUniverse(Len(opcodes)) : ParseStat(stat)

ParseType ==
    /\ Parsing(MaxTypeStats)
    /\ \E stat \in TypeUniverse(Len(opcodes)) : ParseStat(stat)

ParseProp ==
    /\ Parsing(MaxPropStats)
    /\ \E stat \in PropUniverse(Len(opcodes)) : ParseStat(stat)

ParseDup ==
    /\ Parsing(MaxDupStats)
    /\ \E stat \in DupUniverse(Len(opcodes)) : ParseStat(stat)

\* analyze: self.build_index(opcodes)
BuildIndex ==
    /\ pc = "parse"
    /\ parsed' = opcodes
    /\ analyzer' = build_index(analyzer, opcodes)
    /\ pc' = "check"
    /\ UNCHANGED <<opcodes, updates, index, result>>
    /\ UNCHANGED driver

\* check writing each replacement into the slice at once
CheckInPlace ==
    /\ pc = "check"
    /\ index < Len(opcodes)
    /\ LET r == check_stat(analyzer, opcodes, index, opcodes[index + 1])
       IN  /\ analyzer' = r.self
           /\ IF r.panic
              THEN pc' = "panic" /\ UNCHANGED <<opcodes, index>>
              ELSE /\ pc' = "check"
                   /\ opcodes' = apply_updates(opcodes, r.update)
                   /\ index' = index + 1
    /\ UNCHANGED <<updates, parsed, result>>
    /\ UNCHANGED driver

\* check: one iteration of the loop over the statements
Check ==
    /\ pc = "check"
    /\ index < Len(opcodes)
    /\ LET r == check_stat(analyzer, opcodes, index, opcodes[index + 1])
       IN  /\ analyzer' = r.self
           /\ IF r.panic
              THEN pc' = "panic" /\ UNCHANGED <<updates, index>>
              ELSE /\ pc' = "check"
                   /\ updates' = updates \o r.update
                   /\ index' = index + 1
    /\ UNCHANGED <<opcodes, parsed, result>>
    /\ UNCHANGED driver

\* check: the replacements are written back once the loop has ended
Update ==
    /\ pc = "check"
    /\ index = Len(opcodes)
    /\ opcodes' = apply_updates(opcodes, updates)
    /\ updates' = << >>
    /\ pc' = "return"
    /\ UNCHANGED <<parsed, analyzer, index, result>>
    /\ UNCHANGED driver

\* analyze: self.errors == 0
Return ==
    /\ pc = "return"
    /\ result' = Some(analyzer.errors = 0)
    /\ pc' = "done"
    /\ UNCHANGED <<opcodes, parsed, analyzer, updates, index>>
    /\ UNCHANGED driver

Next == Parse \/ BuildIndex \/ Check \/ Update \/ Return

Spec == Init /\ [][Next]_vars

NextLink == ParseLink \/ BuildIndex \/ Check \/ Update \/ Return

SpecLink == Init /\ [][NextLink]_vars

NextType == ParseType \/ BuildIndex \/ Check \/ Update \/ Return

SpecType == Init /\ [][NextType]_vars

NextProp == ParseProp \/ BuildIndex \/ Check \/ Update \/ Return

SpecProp == Init /\ [][NextProp]_vars

NextDup == ParseDup \/ BuildIndex \/ Check \/ Update \/ Return

SpecDup == Init /\ [][NextDup]_vars

----------------------------------------------------------------------------
(* Vocabulary of the properties *)

Indices(ops) == 0..(Len(ops) - 1)

At(ops, idx) == ops[idx + 1]

Returned(value) == pc = "done" /\ result = Some(value)

\* the statements that declare a name
IsDecl(stat) == stat.tag \notin LinkTags

DeclsNamed(ops, name) ==
    {idx \in Indices(ops) : IsDecl(At(ops, idx)) /\ At(ops, idx).node.ident.name = name}

Last(S) == CHOOSE x \in S : \A y \in S : y <= x

\* a name resolves to its last declaration
Resolves(ops, name) == DeclsNamed(ops, name) # {}

Resolved(ops, name) == At(ops, Last(DeclsNamed(ops, name)))

NamesGroup(ops, name) == Resolves(ops, name) /\ Resolved(ops, name).tag = "Group"

NamesNonGroup(ops, name) == Resolves(ops, name) /\ Resolved(ops, name).tag # "Group"

MixinsNamed(ops, name) ==
    {idx \in DeclsNamed(ops, name) : At(ops, idx).tag = "Mixin"}

\* every Node of the slice: the declarations and the variants of the enums
DeclNodes(ops) ==
    {At(ops, idx).node : idx \in {n \in Indices(ops) : At(ops, n).tag \in AllNodeTags}}

VariantNodes(ops) ==
    UNION {{At(ops, idx).node.fields[v] : v \in 1..Len(At(ops, idx).node.fields)} :
            idx \in {n \in Indices(ops) : At(ops, n).tag = "Enum"}}

Nodes(ops) == DeclNodes(ops) \cup VariantNodes(ops)

Range(seq) == {seq[n] : n \in 1..Len(seq)}

Reported(err) == \E entry \in Range(analyzer.log) : entry.err = err

ReportedAt(at, err) == [at |-> at, err |-> err] \in Range(analyzer.log)

----------------------------------------------------------------------------
(* C1: whenever semantic_analyze returns true, no Node of the resulting    *)
(* statement sequence (declaration or enum variant) has its mixin slot set. *)
NoMixinSlotAfterSuccess ==
    Returned(TRUE) => \A node \in Nodes(opcodes) : node.mixin = None

(* C2: semantic_analyze returns true if and only if no diagnostic was      *)
(* reported during the run.                                                *)
SuccessIffNothingReported ==
    pc = "done" => (result = Some(TRUE) <=> analyzer.log = << >>)

----------------------------------------------------------------------------
Links(ops) == {idx \in Indices(ops) : At(ops, idx).tag \in LinkTags}

Endpoints(stat) == Range(stat.node.from) \cup Range(stat.node.to)

GroupEndpoints(ops, stat) ==
    {ident \in Endpoints(stat) : NamesGroup(ops, ident.name)}

(* C3: whenever semantic_analyze returns true, every identifier in the     *)
(* from and to lists of every ApplyTo and ChildrenOf statement names a     *)
(* declared symbol that is not a group, and the children of every group    *)
(* the parsed statement referred to are among them.                        *)
NoGroupEndpointAfterSuccess ==
    Returned(TRUE) =>
        \A idx \in Links(opcodes) :
            /\ \A ident \in Endpoints(At(opcodes, idx)) :
                    NamesNonGroup(opcodes, ident.name)
            /\ \A ident \in GroupEndpoints(parsed, At(parsed, idx)) :
                    Range(Resolved(parsed, ident.name).node.children)
                        \subseteq Endpoints(At(opcodes, idx))

\* a successful run whose link referred to a group that has children
GroupEndpointExpanded ==
    /\ Returned(TRUE)
    /\ \E idx \in Links(parsed) :
         \E ident \in GroupEndpoints(parsed, At(parsed, idx)) :
            Resolved(parsed, ident.name).node.children # << >>

\* the endpoint list the analyzer is to produce from `idents`
RECURSIVE Expansion(_, _)
Expansion(ops, idents) ==
    IF idents = << >> THEN << >>
    ELSE (CASE NamesNonGroup(ops, Head(idents).name) -> <<Head(idents)>>
            [] NamesGroup(ops, Head(idents).name) ->
                    Resolved(ops, Head(idents).name).node.children
            [] OTHER -> << >>)
         \o Expansion(ops, Tail(idents))

(* C7: in the rewritten ApplyTo / ChildrenOf statement each endpoint list  *)
(* is the original list with every identifier that resolves to a non-group *)
(* symbol kept at its position and every identifier that resolves to a     *)
(* group replaced, at its position, by the group's children in declared    *)
(* order.                                                                  *)
EndpointsExpandedInPlace ==
    pc = "done" =>
        \A idx \in Links(parsed) :
            /\ At(opcodes, idx).node.from = Expansion(parsed, At(parsed, idx).node.from)
            /\ At(opcodes, idx).node.to = Expansion(parsed, At(parsed, idx).node.to)

\* a link whose from list is a kept identifier followed by a group of two
MixedEndpointsExpanded ==
    /\ pc = "done"
    /\ \E idx \in Links(parsed) :
         LET from == At(parsed, idx).node.from
         IN  /\ Len(from) = 2
             /\ NamesNonGroup(parsed, from[1].name)
             /\ NamesGroup(parsed, from[2].name)
             /\ Len(Resolved(parsed, from[2].name).node.children) = 2
             /\ Len(At(opcodes, idx).node.from) = 3

----------------------------------------------------------------------------
Decls(ops) == {idx \in Indices(ops) : IsDecl(At(ops, idx))}

\* the pairs of declarations that share their identifier, earlier one first
SharingPairs(ops) ==
    {pair \in Decls(ops) \X Decls(ops) :
        /\ pair[1] < pair[2]
        /\ At(ops, pair[1]).node.ident.name = At(ops, pair[2]).node.ident.name}

DuplicatesReported == {entry \in Range(analyzer.log) : entry.err.error = "Duplicate"}

(* C4: for every pair of named declarations that share an identifier,      *)
(* semantic_analyze returns false and reports Duplicate(name, span) with   *)
(* the span of the earlier declaration of the pair; and every Duplicate    *)
(* that is reported is the one of such a pair, so ApplyTo and ChildrenOf   *)
(* statements cause none.                                                  *)
DuplicateReportsEarlierSpan ==
    pc = "done" =>
        /\ \A pair \in SharingPairs(parsed) :
              LET earlier == At(parsed, pair[1]).node.ident
              IN  /\ result = Some(FALSE)
                  /\ Reported(Duplicate(earlier.name, earlier.span))
        /\ \A entry \in DuplicatesReported :
              \E pair \in SharingPairs(parsed) :
                  LET earlier == At(parsed, pair[1]).node.ident
                  IN  entry = [at |-> earlier.span,
                               err |-> Duplicate(earlier.name, earlier.span)]

\* three declarations of different kinds share one identifier, next to none
\* of the other
ThreeDeclarationsShareName ==
    /\ pc = "done"
    /\ \E p \in SharingPairs(parsed), q \in SharingPairs(parsed) :
          /\ p[2] = q[1]
          /\ At(parsed, p[1]).tag # At(parsed, p[2]).tag
          /\ At(parsed, q[1]).tag # At(parsed, q[2]).tag
    /\ Len(analyzer.log) = 2

----------------------------------------------------------------------------
\* the el / leaf / attr / data declarations that refer to a declared mixin
Referring(ops) ==
    {idx \in Indices(ops) :
        /\ At(ops, idx).tag \in NodeTags
        /\ At(ops, idx).node.mixin # None
        /\ MixinsNamed(ops, At(ops, idx).node.mixin[1].name) # {}}

\* the mixin declaration such a reference resolves to
MixinOf(ops, idx) ==
    At(ops, Last(MixinsNamed(ops, At(ops, idx).node.mixin[1].name))).node

SameShape(ops, idx) == At(ops, idx).node.fields.shape = MixinOf(ops, idx).fields.shape

ShapeMismatchKeepsFields ==
    pc = "done" =>
        \A idx \in Referring(parsed) :
            ~SameShape(parsed, idx) =>
                /\ Reported(Merge(MixinOf(parsed, idx).ident.name,
                                  MixinOf(parsed, idx).ident.span))
                /\ At(opcodes, idx).node.fields = At(parsed, idx).node.fields

\* a named node that refers to a positional mixin has been analyzed
ShapeMismatchMet ==
    /\ pc = "done"
    /\ \E idx \in Referring(parsed) :
          /\ At(parsed, idx).node.fields.shape = "Named"
          /\ MixinOf(parsed, idx).fields.shape = "Unnamed"
          /\ At(opcodes, idx).node.mixin = None

----------------------------------------------------------------------------
\* the field types of every declaration, mixin and enum variant
FieldTypes(ops) ==
    UNION {{node.fields.items[n].ty : n \in 1..Len(node.fields.items)} :
            node \in Nodes(ops)}

IsSequenceType(ty) == ty.type \in {"ListOf", "ArrayOf"}

RECURSIVE Innermost(_)
Innermost(ty) == IF IsSequenceType(ty) THEN Innermost(ty.component) ELSE ty

RECURSIVE Depth(_)
Depth(ty) == IF IsSequenceType(ty) THEN 1 + Depth(ty.component) ELSE 0

RECURSIVE TypeSpans(_)
TypeSpans(ty) ==
    {ty.span} \cup (IF IsSequenceType(ty) THEN TypeSpans(ty.component) ELSE {})

\* the types that refer to a name, at whatever depth
DataTypes(ops) == {ty \in FieldTypes(ops) : Innermost(ty).type = "Data"}

GroupTypes(ops) ==
    {ty \in DataTypes(ops) : NamesGroup(ops, Innermost(ty).ident.name)}

UnknownTypes(ops) ==
    {ty \in DataTypes(ops) : ~Resolves(ops, Innermost(ty).ident.name)}

(* C8: for every field type Type::Data(ident), at any depth inside ListOf  *)
(* and ArrayOf, in the fields of a node declaration, a mixin or an enum    *)
(* variant, whose ident names a group (the declaration the name resolves   *)
(* to is a group), semantic_analyze returns false and reports              *)
(* Group(group name, group span).                                          *)
GroupAsTypeRejected ==
    pc = "done" =>
        \A ty \in GroupTypes(parsed) :
            LET group == Resolved(parsed, Innermost(ty).ident.name).node
            IN  /\ result = Some(FALSE)
                /\ Reported(GroupErr(group.ident.name, group.ident.span))

\* a group used as a type two levels deep in an enum variant
NestedGroupTypeMet ==
    /\ pc = "done"
    /\ \E ty \in GroupTypes(parsed) :
          /\ Depth(ty) >= 2
          /\ \E node \in VariantNodes(parsed) : node.fields.items[1].ty = ty

(* C9: for every field type Type::Data(ident), at any depth, whose ident   *)
(* names no declared symbol, semantic_analyze returns false and reports    *)
(* Unknown(ident) at the identifier's span; a primitive type produces no   *)
(* diagnostic.                                                             *)
UnknownTypeRejected ==
    pc = "done" =>
        /\ \A ty \in UnknownTypes(parsed) :
              /\ result = Some(FALSE)
              /\ ReportedAt(Innermost(ty).ident.span, Unknown(Innermost(ty).ident.name))
        /\ \A ty \in FieldTypes(parsed) \ DataTypes(parsed) :
              \A entry \in Range(analyzer.log) : entry.at \notin TypeSpans(ty)

\* an undeclared name inside a list or array type, next to a primitive field
NestedUnknownTypeMet ==
    /\ pc = "done"
    /\ \E ty \in UnknownTypes(parsed) : Depth(ty) >= 1
    /\ FieldTypes(parsed) \ DataTypes(parsed) # {}

----------------------------------------------------------------------------
\* every property list of the schema: of declarations and enum variants, of
\* their named fields, and of enums
PropertyLists(ops) ==
    {node.properties : node \in Nodes(ops)}
    \cup UNION {{node.fields.items[n].properties : n \in 1..Len(node.fields.items)} :
                 node \in Nodes(ops)}
    \cup {At(ops, idx).node.properties :
            idx \in {n \in Indices(ops) : At(ops, n).tag = "Enum"}}

Calls(ops) ==
    UNION {UNION {Range(property.calls) : property \in Range(properties)} :
            properties \in PropertyLists(ops)}

(* C10: the arity of every property call of the schema is validated,       *)
(* whether the call is attached to a declaration, a named field, an enum   *)
(* or an enum variant: rename without exactly one parameter is reported as *)
(* Rename, option / variable / init with parameters as VariableOption, and *)
(* any other call is accepted silently.                                    *)
EveryPropertyCallValidated ==
    pc = "done" =>
        \A call \in Calls(parsed) :
            CASE call.target.name = "rename" ->
                    Len(call.params) # 1 => ReportedAt(call.target.span, Rename)
              [] call.target.name \in {"option", "variable", "init"} ->
                    Len(call.params) > 0 =>
                        ReportedAt(call.target.span, VariableOption(call.target.name))
              [] OTHER -> \A entry \in Range(analyzer.log) : entry.at # call.target.span

----------------------------------------------------------------------------
(* The parser (src/src/lang/parser).  The source is a sequence of tokens:  *)
(* keywords, identifiers and punctuation; the white space between them is  *)
(* not kept, so skip_ws consumes nothing.  A Span is <<lo, hi>>, the       *)
(* offsets of its first token and of the token after its last.  A parser   *)
(* returns Parsed(value, pos), pos being the offset it leaves the context  *)
(* at, or Failed(flow, pos) with flow a ControlFlow or a panic.            *)

Punct == {":=", "(", ")", "{", "}", ",", ";", ":", "[p]"}

Primitives == {"string", "bool", "int"}

Span(lo, hi) == <<lo, hi>>

\* ParseError::kind(detail), e.g. ParseError::Group(GroupKind::Assign)
ParseError(kind, detail) == [kind |-> kind, detail |-> detail]

\* parserc::ControlFlow
Fatal(err) == [flow |-> "Fatal", error |-> err]
Recoverable(err) == [flow |-> "Recoverable", error |-> err]
Incomplete(err) == [flow |-> "Incomplete", error |-> err]

\* panic!/assert_eq! inside a parser: the process aborts
Panic(msg) == [flow |-> "Panic", error |-> msg]

Parsed(value, pos) == [ok |-> TRUE, value |-> value, pos |-> pos]
Failed(flow, pos) == [ok |-> FALSE, value |-> flow, pos |-> pos]

\* an error that no combinator turns into a value
Aborts(r) == ~r.ok /\ r.value.flow \in {"Fatal", "Panic"}

\* ParserExt::ok: a miss becomes None and the context is put back
ok(r, pos) ==
    IF r.ok THEN Parsed(Some(r.value), r.pos)
    ELSE IF Aborts(r) THEN r
    ELSE Parsed(None, pos)

\* ParserExt::fatal: a miss becomes the given fatal error
fatal(r, err) ==
    IF r.ok \/ Aborts(r) THEN r ELSE Failed(Fatal(err), r.pos)

\* ParserExt::or: the second parser runs where the first one missed
or(r, other) == IF r.ok \/ Aborts(r) THEN r ELSE other

\* the `?` after a parser call: an error returns at once, otherwise the
\* rest of the function goes on with the value and the new offset
try(r, rest(_, _)) == IF r.ok THEN rest(r.value, r.pos) ELSE r

\* ctx.remaining()
remaining(src, pos) == Len(src) - pos

\* ensure_keyword(kw) and ensure_char(c): the next token is the one expected
ensure_keyword(kw, src, pos) ==
    IF remaining(src, pos) > 0 /\ src[pos + 1] = kw
    THEN Parsed(Span(pos, pos + 1), pos + 1)
    ELSE Failed(Recoverable(ParseError("Parserc", kw)), pos)

ensure_char(c, src, pos) == ensure_keyword(c, src, pos)

\* Ident::parse: the next token is a word
Ident_parse(src, pos) ==
    IF remaining(src, pos) > 0 /\ src[pos + 1] \notin Punct
    THEN Parsed(Ident(Span(pos, pos + 1), src[pos + 1]), pos + 1)
    ELSE Failed(Recoverable(ParseError("Ident", "")), pos)

\* parse_prefix: comment* property*; "[p]" is one property with one call
RECURSIVE parse_prefix_from(_, _, _)
parse_prefix_from(src, pos, properties) ==
    IF remaining(src, pos) > 0 /\ src[pos + 1] = "[p]"
    THEN parse_prefix_from(src, pos + 1,
            Append(properties,
                   Property(<<Call(Ident(Span(pos, pos + 1), "p"), << >>)>>)))
    ELSE Parsed([comments |-> << >>, properties |-> properties], pos)

parse_prefix(src, pos) == parse_prefix_from(src, pos, << >>)

\* the loop of parse_tuple_idents: ident (',' ident)*
RECURSIVE tuple_idents_loop(_, _, _)
tuple_idents_loop(src, pos, children) ==
    try(ok(Ident_parse(src, pos), pos), LAMBDA ident, p1:
        IF ident = None THEN Parsed(children, pos)
        ELSE try(ok(ensure_char(",", src, p1), p1), LAMBDA comma, p2:
                 IF comma = None THEN Parsed(Append(children, ident[1]), p1)
                 ELSE tuple_idents_loop(src, p2, Append(children, ident[1]))))

parse_tuple_idents(src, pos) ==
    try(fatal(ensure_char("(", src, pos), ParseError("Tuple", "BodyStart")),
        LAMBDA open, p1:
    try(tuple_idents_loop(src, p1, << >>), LAMBDA children, p2:
    try(fatal(ensure_char(")", src, p2), ParseError("Tuple", "BodyEnd")),
        LAMBDA close, p3:
    Parsed(children, p3))))

\* Ident::into_parser().map(|v| vec![v])
ident_vec(r) == IF r.ok THEN Parsed(<<r.value>>, r.pos) ELSE r

\* Ident::into_parser().map(|v| vec![v]).or(parse_tuple_idents)
parse_endpoint(src, pos) ==
    or(ident_vec(Ident_parse(src, pos)), parse_tuple_idents(src, pos))

\* impl FromSrc for Group
Group_parse(src, pos) ==
    try(parse_prefix(src, pos), LAMBDA prefix, p0:
    try(ensure_keyword("group", src, p0), LAMBDA start, p1:
    try(Ident_parse(src, p1), LAMBDA ident, p2:
    try(fatal(ensure_keyword(":=", src, p2), ParseError("Group", "Assign")),
        LAMBDA assign, p3:
    try(parse_tuple_idents(src, p3), LAMBDA children, p4:
    try(fatal(ensure_char(";", src, p4), ParseError("Group", "End")),
        LAMBDA end, p5:
    Parsed([comments |-> prefix.comments,
            properties |-> prefix.properties,
            span |-> Span(start[1], end[2]),
            ident |-> ident,
            children |-> children], p5)))))))

\* impl FromSrc for ApplyTo
ApplyTo_parse(src, pos) ==
    try(parse_prefix(src, pos), LAMBDA prefix, p0:
    try(ensure_keyword("apply", src, p0), LAMBDA start, p1:
    try(parse_endpoint(src, p1), LAMBDA from, p2:
    try(fatal(ensure_keyword("to", src, p2), ParseError("ApplyTo", "To")),
        LAMBDA to_kw, p3:
    try(fatal(parse_endpoint(src, p3), ParseError("ApplyTo", "Target")),
        LAMBDA to, p4:
    try(fatal(ensure_char(";", src, p4), ParseError("ApplyTo", "End")),
        LAMBDA end, p5:
    Parsed([properties |-> prefix.properties,
            comments |-> prefix.comments,
            span |-> Span(start[1], end[2]),
            from |-> from,
            to |-> to], p5)))))))

\* impl FromSrc for ChildrenOf
ChildrenOf_parse(src, pos) ==
    try(parse_prefix(src, pos), LAMBDA prefix, p0:
    try(ensure_keyword("children", src, p0), LAMBDA start, p1:
    try(fatal(parse_endpoint(src, p1), ParseError("ChildrenOf", "From")),
        LAMBDA from, p2:
    try(fatal(ensure_keyword("of", src, p2), ParseError("ChildrenOf", "From")),
        LAMBDA of_kw, p3:
    try(fatal(parse_endpoint(src, p3), ParseError("ChildrenOf", "To")),
        LAMBDA to, p4:
    try(fatal(ensure_char(";", src, p4), ParseError("ChildrenOf", "End")),
        LAMBDA end, p5:
    Parsed([properties |-> prefix.properties,
            comments |-> prefix.comments,
            span |-> Span(start[1], end[2]),
            from |-> from,
            to |-> to], p5)))))))

\* a type: a primitive, or the name of a declaration
Type_parse(src, pos) ==
    try(Ident_parse(src, pos), LAMBDA ident, p1:
        IF ident.name \in Primitives
        THEN Parsed(Prim(ident.span, ident.name), p1)
        ELSE Parsed(Data(ident), p1))

\* named-field (',' named-field)*, a named field being ident ':' type
RECURSIVE named_fields_loop(_, _, _)
named_fields_loop(src, pos, items) ==
    try(ok(Ident_parse(src, pos), pos), LAMBDA ident, p1:
        IF ident = None THEN Parsed(items, pos)
        ELSE
    try(fatal(ensure_char(":", src, p1), ParseError("NamedField", "SemiColons")),
        LAMBDA colon, p2:
    try(fatal(Type_parse(src, p2), ParseError("NamedField", "Type")),
        LAMBDA ty, p3:
    try(ok(ensure_char(",", src, p3), p3), LAMBDA comma, p4:
        IF comma = None
        THEN Parsed(Append(items, NamedField(ident[1], ty, << >>)), p3)
        ELSE named_fields_loop(src, p4,
                               Append(items, NamedField(ident[1], ty, << >>)))))))

\* type (',' type)*
RECURSIVE unnamed_fields_loop(_, _, _)
unnamed_fields_loop(src, pos, items) ==
    try(ok(Type_parse(src, pos), pos), LAMBDA ty, p1:
        IF ty = None THEN Parsed(items, pos)
        ELSE try(ok(ensure_char(",", src, p1), p1), LAMBDA comma, p2:
                 IF comma = None
                 THEN Parsed(Append(items, UnnamedField(ty[1])), p1)
                 ELSE unnamed_fields_loop(src, p2,
                                          Append(items, UnnamedField(ty[1])))))

\* '{' named fields '}'
named_fields(src, pos) ==
    try(named_fields_loop(src, pos, << >>), LAMBDA named, p1:
    try(fatal(ensure_char("}", src, p1), ParseError("Fields", "EndTag(})")),
        LAMBDA brace_end, p2:
    Parsed(Named(named), p2)))

\* '(' types ')'
unnamed_fields(src, pos) ==
    try(unnamed_fields_loop(src, pos, << >>), LAMBDA unnamed, p1:
    try(fatal(ensure_char(")", src, p1), ParseError("Fields", "EndTag())")),
        LAMBDA paren_end, p2:
    Parsed(Unnamed(unnamed), p2)))

\* Fields::parse: '{' named fields '}' | '(' types ')' | nothing
Fields_parse(src, pos) ==
    try(ok(ensure_char("{", src, pos), pos), LAMBDA brace, p1:
        IF brace # None THEN named_fields(src, p1)
        ELSE try(ok(ensure_char("(", src, pos), pos), LAMBDA paren, p2:
                 IF paren # None THEN unnamed_fields(src, p2)
                 ELSE Parsed(Unit, pos)))

\* Fields::is_tuple: the forms that a ';' closes
is_tuple(fields) == fields.shape \in {"Unnamed", "Unit"}

\* `mixin` ident, the ident being required once the keyword is there
parse_mixin(src, pos) ==
    try(ok(ensure_keyword("mixin", src, pos), pos), LAMBDA mixin_kw, p1:
        IF mixin_kw = None THEN Parsed(None, p1)
        ELSE try(fatal(Ident_parse(src, p1), ParseError("Node", "MixinIdent")),
                 LAMBDA m, p2: Parsed(Some(m), p2)))

\* parse_node_body
parse_node_body(src, pos) ==
    try(Ident_parse(src, pos), LAMBDA ident, p1:
    try(parse_mixin(src, p1), LAMBDA mixin, p2:
    try(fatal(Fields_parse(src, p2), ParseError("Node", "Fields")),
        LAMBDA fields, p3:
    Parsed([span |-> Span(pos, p3),
            comments |-> << >>,
            mixin |-> mixin,
            properties |-> << >>,
            ident |-> ident,
            fields |-> fields], p3))))

NodeKeywords ==
    [el |-> "Element", leaf |-> "Leaf", attr |-> "Attr", data |-> "Data",
     mixin |-> "Mixin"]

\* the keyword of a node statement
node_keyword(src, pos) ==
    or(ensure_keyword("el", src, pos),
    or(ensure_keyword("leaf", src, pos),
    or(ensure_keyword("attr", src, pos),
    or(ensure_keyword("data", src, pos),
       ensure_keyword("mixin", src, pos)))))

\* the ';' that closes a node without a braced body
node_end(src, pos, body) ==
    IF is_tuple(body.fields)
    THEN fatal(ensure_char(";", src, pos), ParseError("Node", "End"))
    ELSE Parsed(Span(pos, pos), pos)

\* parse_node
parse_node(src, pos) ==
    try(parse_prefix(src, pos), LAMBDA prefix, p0:
    try(node_keyword(src, p0), LAMBDA keyword, p1:
    try(parse_node_body(src, p1), LAMBDA body, p2:
    try(node_end(src, p2, body), LAMBDA end, p3:
    Parsed([tag |-> NodeKeywords[src[keyword[1] + 1]],
            node |-> [body EXCEPT !.comments = prefix.comments,
                                  !.properties = prefix.properties]], p3)))))

\* the loop over the variants of an enum
RECURSIVE variants_loop(_, _, _)
variants_loop(src, pos, fields) ==
    try(parse_prefix(src, pos), LAMBDA prefix, p0:
    try(ok(parse_node_body(src, p0), p0), LAMBDA body, p1:
        IF body = None THEN Parsed(fields, p1)
        ELSE try(ok(ensure_char(",", src, p1), p1), LAMBDA comma, p2:
                 IF comma = None
                 THEN Parsed(Append(fields,
                                    [body[1] EXCEPT
                                       !.comments = prefix.comments,
                                       !.properties = prefix.properties]), p1)
                 ELSE variants_loop(src, p2,
                          Append(fields,
                                 [body[1] EXCEPT
                                    !.comments = prefix.comments,
                                    !.properties = prefix.properties])))))

\* impl FromSrc for Enum
Enum_parse(src, pos) ==
    try(parse_prefix(src, pos), LAMBDA prefix, p0:
    try(ensure_keyword("enum", src, p0), LAMBDA kw, p1:
    try(fatal(Ident_parse(src, p1), ParseError("Enum", "Ident")),
        LAMBDA ident, p2:
    try(fatal(ensure_char("{", src, p2), ParseError("Enum", "BodyStart")),
        LAMBDA open, p3:
    try(variants_loop(src, p3, << >>), LAMBDA fields, p4:
    try(fatal(ensure_char("}", src, p4), ParseError("Enum", "BodyEnd")),
        LAMBDA end, p5:
    Parsed([span |-> Span(pos, end[2]),
            comments |-> prefix.comments,
            properties |-> prefix.properties,
            ident |-> ident,
            fields |-> fields], p5)))))))

\* a parsed node wrapped into its statement
stat_of(tag, r) ==
    IF r.ok THEN Parsed([tag |-> tag, node |-> r.value], r.pos) ELSE r

\* what is left when no alternative of Stat::parse matched
Stat_end(src, pos) ==
    IF remaining(src, pos) # 0
    THEN Failed(Panic("Unparsed codes"), pos)
    ELSE Failed(Incomplete(ParseError("End", "")), pos)

\* impl FromSrc for Stat: the alternatives in order; when none matches the
\* rest of the source must be empty
Stat_parse(src, pos) ==
    try(ok(stat_of("Enum", Enum_parse(src, pos)), pos), LAMBDA enum, p1:
        IF enum # None THEN Parsed(enum[1], p1) ELSE
    try(ok(parse_node(src, pos), pos), LAMBDA node, p2:
        IF node # None THEN Parsed(node[1], p2) ELSE
    try(ok(stat_of("Group", Group_parse(src, pos)), pos), LAMBDA group, p3:
        IF group # None THEN Parsed(group[1], p3) ELSE
    try(ok(stat_of("ApplyTo", ApplyTo_parse(src, pos)), pos),
        LAMBDA apply_to, p4:
        IF apply_to # None THEN Parsed(apply_to[1], p4) ELSE
    try(ok(stat_of("ChildrenOf", ChildrenOf_parse(src, pos)), pos),
        LAMBDA children_of, p5:
        IF children_of # None THEN Parsed(children_of[1], p5)
        ELSE Stat_end(src, pos))))))
----------------------------------------------------------------------------
(* The serde generator (src/src/lang/rustgen/serde).  The emitted token     *)
(* stream is kept as the structure it spells: an impl is a record of the    *)
(* literals spliced into its quote! template, a `match` is the sequence of  *)
(* its arms in the order emitted.                                           *)

\* the strings the generator and the generated code compare, in the order
\* of `str::cmp` (byte order: upper case before lower case)
Lexicon ==
    <<"A", "B", "E", "Fill", "G", "M", "N", "Stroke", "V", "W",
      "a", "b", "color", "e", "fill", "fontSize", "font_size", "g", "m", "n",
      "paint", "stroke", "v", "w", "width", "x", "zz">>

Rank(s) == CHOOSE n \in 1..Len(Lexicon) : Lexicon[n] = s

\* a < b for strings
str_lt(a, b) == Rank(a) < Rank(b)

\* Vec::sort on strings: insertion of each element into the sorted rest
RECURSIVE insert_sorted(_, _)
insert_sorted(x, sorted) ==
    IF sorted = << >> THEN <<x>>
    ELSE IF str_lt(Head(sorted), x)
         THEN <<Head(sorted)>> \o insert_sorted(x, Tail(sorted))
         ELSE <<x>> \o sorted

RECURSIVE sort(_)
sort(seq) ==
    IF seq = << >> THEN << >> ELSE insert_sorted(Head(seq), sort(Tail(seq)))

\* heck::ToLowerCamelCase on the identifiers of the sources: the words of
\* the identifier joined, the first one in lower case
to_lower_camel_case(s) ==
    CASE s = "font_size" -> "fontSize"
      [] s = "Fill" -> "fill"
      [] s = "Stroke" -> "stroke"
      [] s = "A" -> "a"
      [] s = "B" -> "b"
      [] s = "E" -> "e"
      [] s = "G" -> "g"
      [] s = "M" -> "m"
      [] s = "N" -> "n"
      [] s = "V" -> "v"
      [] s = "W" -> "w"
      [] s \in {"a", "b", "color", "e", "fill", "fontSize", "g", "m", "n", "paint",
                "stroke", "v", "w", "width", "x", "zz"} -> s

\* the calls of a property list, in source order
RECURSIVE calls_of(_)
calls_of(properties) ==
    IF properties = << >> THEN << >>
    ELSE Head(properties).calls \o calls_of(Tail(properties))

RECURSIVE first_rename(_)
first_rename(calls) ==
    IF calls = << >> THEN None
    ELSE IF Head(calls).target.name = "rename" /\ Len(Head(calls).params) = 1
         THEN Some(Head(calls).params[1])
         ELSE first_rename(Tail(calls))

\* Node::rename, Enum::rename, Field::rename: the parameter of the `rename`
\* property
rename(properties) == first_rename(calls_of(properties))

\* ComplexTypeMapping::to_ident, FieldMapping::to_ident: the host-level
\* identifier is the source identifier
Node_to_ident(node) == node.ident.name

Field_to_ident(field) ==
    IF field.ident = None THEN None ELSE Some(field.ident[1].name)

\* impl SerdeDisplayName for Node, and for Enum
Node_display_name(node) ==
    IF rename(node.properties) # None
    THEN Some(rename(node.properties)[1])
    ELSE Some(to_lower_camel_case(node.ident.name))

\* impl SerdeDisplayName for Field
Field_display_name(field) ==
    IF rename(field.properties) # None
    THEN Some(rename(field.properties)[1])
    ELSE IF field.ident = None THEN None
         ELSE Some(to_lower_camel_case(field.ident[1].name))

\* impl SerializeCodeGen for Node
Node_gen_serialize_trait(node, serialize_fn, idx) ==
    [trait |-> "Serialize",
     for |-> Node_to_ident(node),
     call |-> [fn |-> serialize_fn, type_id |-> idx,
               name |-> Node_display_name(node)[1],
               fields |-> Len(node.fields.items)],
     stats |-> [n \in 1..Len(node.fields.items) |->
                  [idx |-> n - 1, name |-> Field_display_name(node.fields.items[n])]]]

\* a Deserialize that numbers the type by the count of its fields
Node_gen_deserialize_trait_by_fields(node, deserialize_fn, type_id) ==
    [trait |-> "Deserialize",
     for |-> Node_to_ident(node),
     call |-> [fn |-> deserialize_fn, type_id |-> Len(node.fields.items),
               name |-> Node_display_name(node)[1]],
     clauses |-> << >>]

\* impl DeserializeCodeGen for Node
Node_gen_deserialize_trait(node, deserialize_fn, type_id) ==
    [trait |-> "Deserialize",
     for |-> Node_to_ident(node),
     call |-> [fn |-> deserialize_fn, type_id |-> type_id,
               name |-> Node_display_name(node)[1]],
     clauses |-> [n \in 1..Len(node.fields.items) |->
                    [ty_name |-> Node_display_name(node)[1], idx |-> n - 1,
                     name |-> Field_display_name(node.fields.items[n])]]]

\* the name an enum variant's serializer passes for its field at the
\* position of the display name
variant_field_ident_name(field) ==
    IF Field_to_ident(field) # None THEN Some(Field_to_ident(field)[1]) ELSE None

\* impl SerializeCodeGen for Enum: one arm per variant
Enum_gen_serialize_trait(self, serialize_fn, type_id) ==
    [trait |-> "Serialize",
     for |-> Node_to_ident(self),
     arms |-> [v \in 1..Len(self.fields) |->
                 LET node == self.fields[v]
                 IN  [variant |-> Node_to_ident(node),
                      call |-> [fn |-> serialize_fn, type_id |-> type_id,
                                name |-> Node_display_name(self)[1],
                                variant |-> Node_display_name(node)[1],
                                idx |-> v - 1,
                                fields |-> Len(node.fields.items)],
                      stats |-> [n \in 1..Len(node.fields.items) |->
                                   [idx |-> n - 1,
                                    name |-> variant_field_ident_name(
                                                 node.fields.items[n])]]]]]

\* the body that builds the variant at position v: an arm of visit_enum and
\* of visit_enum_with
variant_body(self, v) ==
    LET node == self.fields[v]
    IN  [variant |-> Node_to_ident(node),
         position |-> v - 1,
         clauses |-> [n \in 1..Len(node.fields.items) |->
                        [ty_name |-> Node_display_name(node)[1], idx |-> n - 1,
                         name |-> Field_display_name(node.fields.items[n])]]]

\* impl DeserializeCodeGen for Enum
Enum_gen_deserialize_trait(self, type_id) ==
    [trait |-> "Deserialize",
     for |-> Node_to_ident(self),
     call |-> [fn |-> "deserialize_enum", type_id |-> type_id,
               name |-> Node_display_name(self)[1]],
     idxs |-> [v \in 1..Len(self.fields) |->
                 [pattern |-> v - 1, body |-> variant_body(self, v)]],
     names |-> [v \in 1..Len(self.fields) |->
                  [pattern |-> Node_display_name(self.fields[v])[1],
                   body |-> variant_body(self, v)]]]

SerializeFn ==
    [Element |-> "serialize_el", Leaf |-> "serialize_leaf", Attr |-> "serialize_attr",
     Data |-> "serialize_data", Enum |-> "serialize_enum"]

DeserializeFn ==
    [Element |-> "deserialize_element", Leaf |-> "deserialize_leaf",
     Attr |-> "deserialize_attr", Data |-> "deserialize_data",
     Enum |-> "deserialize_enum"]

\* CodeGen::codegen, the loop over the statements: the impls pushed for the
\* statement at idx
impls_of_stat(stat, idx) ==
    CASE stat.tag \in NodeTags ->
            <<Node_gen_serialize_trait(stat.node, SerializeFn[stat.tag], idx),
              Node_gen_deserialize_trait(stat.node, DeserializeFn[stat.tag], idx)>>
      [] stat.tag = "Enum" ->
            <<Enum_gen_serialize_trait(stat.node, SerializeFn[stat.tag], idx),
              Enum_gen_deserialize_trait(stat.node, idx)>>
      [] OTHER -> << >>

RECURSIVE impls_from(_, _)
impls_from(stats, idx) ==
    IF idx >= Len(stats) THEN << >>
    ELSE impls_of_stat(stats[idx + 1], idx) \o impls_from(stats, idx + 1)

\* the statements of the given kinds, by position
StatsTagged(stats, tags) == {n \in 1..Len(stats) : stats[n].tag \in tags}

\* HashMap::insert over the loop: the last statement of a name holds the entry
LastNamed(stats, tags, name) ==
    LET S == {n \in StatsTagged(stats, tags) : stats[n].node.ident.name = name}
    IN  stats[CHOOSE n \in S : \A m \in S : m <= n]

\* display_names: identifier -> display name, of el, leaf and attr
display_names_of(stats) ==
    LET tags == {"Element", "Leaf", "Attr"}
    IN  [name \in {stats[n].node.ident.name : n \in StatsTagged(stats, tags)} |->
            Node_display_name(LastNamed(stats, tags, name).node)[1]]

\* the display names a field list has: filter_map(|field| field.display_name())
RECURSIVE field_display_names(_)
field_display_names(items) ==
    IF items = << >> THEN << >>
    ELSE (IF Field_display_name(Head(items)) = None THEN << >>
          ELSE <<Field_display_name(Head(items))[1]>>)
         \o field_display_names(Tail(items))

\* attr_fields: identifier of an attr -> the display names of its fields
attr_fields_of(stats) ==
    [name \in {stats[n].node.ident.name : n \in StatsTagged(stats, {"Attr"})} |->
        field_display_names(LastNamed(stats, {"Attr"}, name).node.fields.items)]

\* apply_attrs: identifier of a target -> the identifiers applied to it
apply_attrs_of(stats) ==
    LET applies == StatsTagged(stats, {"ApplyTo"})
        froms(n) == {stats[n].node.from[k].name : k \in 1..Len(stats[n].node.from)}
        tos(n) == {stats[n].node.to[k].name : k \in 1..Len(stats[n].node.to)}
    IN  [to \in UNION {tos(n) : n \in {m \in applies : froms(m) # {}}} |->
            UNION {froms(n) : n \in {m \in applies : to \in tos(m)}}]

\* the arms of one attribute kind inside a target's match
fields_clauses_of(attr, attr_fields, display_names) ==
    LET name == display_names[attr]
    IN  <<[pattern |-> name, insert |-> name]>>
        \o (IF attr \in DOMAIN attr_fields
            THEN [n \in 1..Len(attr_fields[attr]) |->
                    [pattern |-> attr_fields[attr][n], insert |-> name]]
            ELSE << >>)

RECURSIVE attrs_clauses(_, _, _)
attrs_clauses(attrs, attr_fields, display_names) ==
    IF attrs = << >> THEN << >>
    ELSE fields_clauses_of(Head(attrs), attr_fields, display_names)
         \o attrs_clauses(Tail(attrs), attr_fields, display_names)

\* a target or an applied identifier without an entry in display_names
\* fails the `expect`
display_name_missing(apply_attrs, display_names) ==
    \E to \in DOMAIN apply_attrs :
        \/ to \notin DOMAIN display_names
        \/ \E attr \in apply_attrs[to] : attr \notin DOMAIN display_names

\* the clauses of gen_fields_to_attrs for the targets and attributes in the
\* orders given
fields_to_attrs_clauses(keys, attrs, attr_fields, display_names) ==
    [n \in 1..Len(keys) |->
        [pattern |-> display_names[keys[n]],
         arms |-> attrs_clauses(attrs[keys[n]], attr_fields, display_names)]]

\* gen_fields_to_attrs emitting the arms in the order the hash tables yield
gen_fields_to_attrs_hash_order(apply_attrs, attr_fields, display_names, keys, attrs) ==
    IF display_name_missing(apply_attrs, display_names)
    THEN [panic |-> TRUE, clauses |-> << >>]
    ELSE [panic |-> FALSE,
          clauses |-> fields_to_attrs_clauses(keys, attrs, attr_fields, display_names)]

\* CodeGen::gen_fields_to_attrs.  keys is apply_attrs.keys() and attrs[to]
\* is apply_attrs[to].iter(), each in the order the hash table yields; both
\* are sorted before the arms are emitted.
gen_fields_to_attrs(apply_attrs, attr_fields, display_names, keys, attrs) ==
    IF display_name_missing(apply_attrs, display_names)
    THEN [panic |-> TRUE, clauses |-> << >>]
    ELSE [panic |-> FALSE,
          clauses |-> fields_to_attrs_clauses(
                          sort(keys), [to \in DOMAIN attrs |-> sort(attrs[to])],
                          attr_fields, display_names)]

Umbrella == {"Element", "Leaf", "Attr"}

\* an arm numbered by the count of the arms before it
gen_visit_opcode_clause_from_one(type_id, node, from) ==
    [pattern |-> type_id + 1, delegate |-> Node_to_ident(node), from |-> from]

\* CodeGen::gen_visit_opcode_clause
gen_visit_opcode_clause(type_id, node, from) ==
    [pattern |-> type_id, delegate |-> Node_to_ident(node), from |-> from]

\* CodeGen::gen_visit_opcode_with_clause
gen_visit_opcode_with_clause(node, from) ==
    [pattern |-> Node_display_name(node)[1], delegate |-> Node_to_ident(node),
     from |-> from]

RECURSIVE visit_opcode_clauses_from(_, _)
visit_opcode_clauses_from(stats, type_id) ==
    IF type_id >= Len(stats) THEN << >>
    ELSE (IF stats[type_id + 1].tag \in Umbrella
          THEN <<gen_visit_opcode_clause(type_id, stats[type_id + 1].node,
                                         stats[type_id + 1].tag)>>
          ELSE << >>)
         \o visit_opcode_clauses_from(stats, type_id + 1)

RECURSIVE visit_opcode_with_clauses_from(_, _)
visit_opcode_with_clauses_from(stats, type_id) ==
    IF type_id >= Len(stats) THEN << >>
    ELSE (IF stats[type_id + 1].tag \in Umbrella
          THEN <<gen_visit_opcode_with_clause(stats[type_id + 1].node,
                                              stats[type_id + 1].tag)>>
          ELSE << >>)
         \o visit_opcode_with_clauses_from(stats, type_id + 1)

\* the nodes of the statements of one kind, in statement order
RECURSIVE nodes_of_kind(_, _)
nodes_of_kind(stats, tag) ==
    IF stats = << >> THEN << >>
    ELSE (IF Head(stats).tag = tag THEN <<Head(stats).node>> ELSE << >>)
         \o nodes_of_kind(Tail(stats), tag)

display_names_of_kind(stats, tag) ==
    LET nodes == nodes_of_kind(stats, tag)
    IN  [n \in 1..Len(nodes) |-> Node_display_name(nodes[n])[1]]

idents_of_kind(stats, tag) ==
    LET nodes == nodes_of_kind(stats, tag)
    IN  [n \in 1..Len(nodes) |-> Node_to_ident(nodes[n])]

\* CodeGen::gen_opcode_deserialize_trait
gen_opcode_deserialize_trait(fileds_to_attrs, stats) ==
    [trait |-> "Deserialize",
     for |-> "Opcode",
     element_names |-> display_names_of_kind(stats, "Element"),
     leaf_names |-> display_names_of_kind(stats, "Leaf"),
     visit_opcode_clauses |-> visit_opcode_clauses_from(stats, 0),
     visit_opcode_with_clauses |-> visit_opcode_with_clauses_from(stats, 0),
     fileds_to_attrs |-> fileds_to_attrs]

\* CodeGen::gen_opcode_serialize_trait
gen_opcode_serialize_trait(stats) ==
    [trait |-> "Serialize",
     for |-> "Opcode",
     ser_attrs |-> idents_of_kind(stats, "Attr"),
     ser_els |-> idents_of_kind(stats, "Element"),
     ser_leaves |-> idents_of_kind(stats, "Leaf")]

\* the orders in which a hash table may yield the elements of S
Orders(S) ==
    {seq \in SeqsOfLen(S, Cardinality(S)) : {seq[n] : n \in 1..Len(seq)} = S}

\* the iteration orders of apply_attrs: of its keys, and of each of its sets
HashOrders(apply_attrs) ==
    {[keys |-> keys, attrs |-> attrs] :
        keys \in Orders(DOMAIN apply_attrs),
        attrs \in {f \in [DOMAIN apply_attrs ->
                            UNION {Orders(apply_attrs[to]) :
                                     to \in DOMAIN apply_attrs}] :
                     \A to \in DOMAIN apply_attrs :
                        f[to] \in Orders(apply_attrs[to])}}

\* CodeGen::codegen of the serde module, and gen_serde_mod: the impls in
\* the order pushed; panic when the routing table cannot be built
gen_serde_mod(stats, order) ==
    LET fileds_to_attrs ==
            gen_fields_to_attrs(apply_attrs_of(stats), attr_fields_of(stats),
                                display_names_of(stats), order.keys, order.attrs)
    IN  IF fileds_to_attrs.panic
        THEN [panic |-> TRUE, impls |-> << >>]
        ELSE [panic |-> FALSE,
              impls |-> impls_from(stats, 0)
                        \o <<gen_opcode_serialize_trait(stats),
                             gen_opcode_deserialize_trait(fileds_to_attrs.clauses,
                                                          stats)>>]

----------------------------------------------------------------------------
(* The generated code at run time: a `match` takes its first arm whose     *)
(* pattern equals the scrutinee.                                           *)

\* the arm a match takes: Some(arm), or None for the `_` arm
RECURSIVE match(_, _)
match(arms, scrutinee) ==
    IF arms = << >> THEN None
    ELSE IF Head(arms).pattern = scrutinee THEN Some(Head(arms))
         ELSE match(Tail(arms), scrutinee)

\* rt::serde::de::Error
UnknownType(type_id) == [error |-> "UnknownType", type_id |-> type_id]
UnknownVariantIndex(name, idx) ==
    [error |-> "UnknownVariantIndex", name |-> name, index |-> idx]
UnknownVariant(name, variant) ==
    [error |-> "UnknownVariant", name |-> name, variant |-> variant]

\* the emitted visit_enum of an enum's Deserialize impl
visit_enum(impl, variant_index) ==
    LET arm == match(impl.idxs, variant_index)
    IN  IF arm # None THEN Ok(arm[1].body)
        ELSE Err(UnknownVariantIndex(impl.call.name, variant_index))

\* the emitted visit_enum_with
visit_enum_with(impl, variant) ==
    LET arm == match(impl.names, variant)
    IN  IF arm # None THEN Ok(arm[1].body)
        ELSE Err(UnknownVariant(impl.call.name, variant))

\* the emitted visit_opcode: Opcode::from(<umbrella>::from(T::deserialize(d)?))
visit_opcode(impl, type_id) ==
    LET arm == match(impl.visit_opcode_clauses, type_id)
    IN  IF arm # None
        THEN Ok([opcode |-> arm[1].from, deserialize |-> arm[1].delegate])
        ELSE Err(UnknownType(type_id))

\* the loop over deserializer.attrs(): the names inserted into `attrs`
RECURSIVE attrs_inserted(_, _, _)
attrs_inserted(impl, name, attr_names) ==
    IF attr_names = << >> THEN {}
    ELSE LET outer == match(impl.fileds_to_attrs, name)
             inner == IF outer = None THEN None
                      ELSE match(outer[1].arms, Head(attr_names))
         IN  (IF inner = None THEN {} ELSE {inner[1].insert})
             \cup attrs_inserted(impl, name, Tail(attr_names))

\* the result of the deserialize_attr calls made in order: the `?` returns
\* the error of the first call that fails (bad: the names whose call fails)
deserialize_attrs(calls, bad) ==
    IF \A n \in 1..Len(calls) : calls[n] \notin bad THEN Ok(calls)
    ELSE Err([error |-> "deserialize_attr",
              name |-> calls[CHOOSE n \in 1..Len(calls) :
                                /\ calls[n] \in bad
                                /\ \A m \in 1..(n - 1) : calls[m] \notin bad]])

\* visit_opcode_with_attrs without the attrs.sort()
visit_opcode_with_attrs_unsorted(impl, name, attr_names, iter, bad) ==
    deserialize_attrs(iter \o <<name>>, bad)

\* the emitted visit_opcode_with_attrs: the names passed to deserialize_attr,
\* in order.  attr_names is deserializer.attrs(); iter is attrs.into_iter(),
\* the names attrs_inserted(impl, name, attr_names) in the order the hash
\* set yields them
visit_opcode_with_attrs(impl, name, attr_names, iter, bad) ==
    deserialize_attrs(sort(iter) \o <<name>>, bad)

----------------------------------------------------------------------------
(* The generator's driver (src/src/lang/rustgen/mod.rs) *)

\* gen_opcode_mod (rustgen/opcode.rs): the data model, a type per declaration
RECURSIVE gen_opcode_mod(_)
gen_opcode_mod(stats) ==
    IF stats = << >> THEN << >>
    ELSE (IF Head(stats).tag \in NodeTags \cup {"Enum"}
          THEN <<[kind |-> Head(stats).tag, type |-> Node_to_ident(Head(stats).node)]>>
          ELSE << >>)
         \o gen_opcode_mod(Tail(stats))

\* std::io::Error: what failed, and on which path
io_error(what, path) == [what |-> what, path |-> path]

\* Error::to_string: the message names the operation and the path
to_string(err) == <<err.what, err.path>>

\* what the operating system may do with one write_and_fmt_rs: the write
\* fails; rustfmt cannot be started; rustfmt runs and exits with a failure;
\* rustfmt formats the file
IoOutcomes == {"write_error", "spawn_error", "exit_failure", "ok"}

\* std::fs::write(path, content), when it succeeds
fs_write(files, path, content) ==
    [files EXCEPT
        !.files = (path :> [content |-> content, formatted |-> FALSE]) @@ @,
        !.ops = Append(@, <<"write", path>>)]

\* Command::new("rustfmt").arg(path).output(), when the process was started:
\* it rewrites the file unless it exits with a failure
rustfmt(files, path, io) ==
    [files EXCEPT
        !.files = [@ EXCEPT ![path].formatted = (io = "ok")],
        !.ops = Append(@, <<"rustfmt", path>>)]

\* a write_and_fmt_rs that takes the file back when rustfmt cannot be started
write_and_fmt_rs_rollback(files, path, content, io) ==
    CASE io = "write_error" ->
            [fs |-> files, ret |-> Err(io_error("write file", path))]
      [] io = "spawn_error" ->
            [fs |-> [files EXCEPT !.ops = Append(@, <<"write", path>>)],
             ret |-> Err(io_error("run rustfmt", path))]
      [] OTHER ->
            [fs |-> rustfmt(fs_write(files, path, content), path, io),
             ret |-> Ok(<< >>)]

\* write_and_fmt_rs: std::fs::write, then rustfmt on the file written; the
\* exit status of rustfmt is not looked at
write_and_fmt_rs(files, path, content, io) ==
    CASE io = "write_error" ->
            [fs |-> files, ret |-> Err(io_error("write file", path))]
      [] io = "spawn_error" ->
            [fs |-> fs_write(files, path, content),
             ret |-> Err(io_error("run rustfmt", path))]
      [] OTHER ->
            [fs |-> rustfmt(fs_write(files, path, content), path, io),
             ret |-> Ok(<< >>)]

\* CodeGen::with_serde
CodeGen_with_serde(self, on) == [self EXCEPT !.with_serde = on]

\* std::fs::create_dir_all(&self.target)
create_dir_all(files) ==
    [files EXCEPT !.exists = TRUE, !.ops = Append(@, <<"create_dir_all", "./">>)]

\* CodeGen::codegen, `mods`: opcode, and serde when with_serde
mods_of(self, stats, serde) ==
    <<[name |-> "opcode", codes |-> gen_opcode_mod(stats)]>>
    \o (IF self.with_serde THEN <<[name |-> "serde", codes |-> serde]>> ELSE << >>)

\* an index that names both modules whatever was written
index_mod_both(impls) == [banner |-> TRUE, mods |-> <<"opcode", "serde">>]

\* the index module: the banner and a `pub mod` item per module written
index_mod(impls) == [banner |-> TRUE, mods |-> impls]

----------------------------------------------------------------------------
(* Sources: token sequences made of statement texts, well formed or with   *)
(* one token missing                                                       *)

\* text without its i-th token
DropAt(text, i) == SubSeq(text, 1, i - 1) \o SubSeq(text, i + 1, Len(text))

Dropped(text) == {DropAt(text, i) : i \in 1..Len(text)}

MaxSourceLen == 10

StatementTexts ==
    {<<"group", "G", ":=", "(", "A", ")", ";">>,
     <<"apply", "A", "to", "B", ";">>,
     <<"children", "A", "of", "B", ";">>,
     <<"enum", "E", "{", "V", "}">>,
     <<"el", "A", ";">>,
     <<"attr", "B", "{", "x", ":", "string", "}">>}

SourceTexts == StatementTexts \cup UNION {Dropped(text) : text \in StatementTexts}

MaxCompileLen == 11

CompileTexts ==
    {<<"el", "A", ";">>,
     <<"attr", "B", ";">>,
     <<"data", "A", ";">>,
     <<"apply", "B", "to", "A", ";">>,
     <<"el", "A">>}

----------------------------------------------------------------------------
(* compile (src/src/lang/mod.rs): parse, analyze, generate *)

InitSource ==
    /\ opcodes = << >>
    /\ parsed = << >>
    /\ analyzer = SemanticAnalyzer_default
    /\ updates = << >>
    /\ index = 0
    /\ pc = "source"
    /\ result = None
    /\ ctx = ParseContext_from(<< >>)
    /\ codegen = CodeGen_default
    /\ fs \in {FileSystem(FALSE), FileSystem(TRUE)}
    /\ output = None
    /\ visited = None

\* the source text is being written
Writing(max) == pc = "source" /\ Len(ctx.source) < max

WriteText(text) ==
    /\ ctx' = [ctx EXCEPT !.source = @ \o text]
    /\ UNCHANGED <<opcodes, parsed, analyzer, updates, index, pc, result,
                   codegen, fs, output, visited>>

Source ==
    /\ Writing(MaxSourceLen)
    /\ \E text \in SourceTexts :
          Len(ctx.source) + Len(text) <= MaxSourceLen /\ WriteText(text)

SourceCompile ==
    /\ Writing(MaxCompileLen)
    /\ \E text \in CompileTexts :
          Len(ctx.source) + Len(text) <= MaxCompileLen /\ WriteText(text)

\* compile: ParseContext::from(source); parse: opcodes = vec![]
Begin ==
    /\ pc = "source"
    /\ ctx' = ParseContext_from(ctx.source)
    /\ pc' = "parsing"
    /\ UNCHANGED <<opcodes, parsed, analyzer, updates, index, result,
                   codegen, fs, output, visited>>

\* parse: one turn of `while let Some(opcode) = Stat::into_parser().ok().parse(input)?`
ParseStatement ==
    /\ pc = "parsing"
    /\ LET r == ok(Stat_parse(ctx.source, ctx.offset), ctx.offset)
       IN  IF r.ok
           THEN IF r.value # None
                THEN /\ opcodes' = Append(opcodes, r.value[1])
                     /\ ctx' = [ctx EXCEPT !.offset = r.pos]
                     /\ pc' = "parsing"
                ELSE /\ ctx' = [ctx EXCEPT !.ret = Some(Ok(opcodes))]
                     /\ pc' = "parse"
                     /\ UNCHANGED opcodes
           ELSE IF r.value.flow = "Panic"
                THEN /\ pc' = "panic"
                     /\ UNCHANGED <<opcodes, ctx>>
                ELSE /\ ctx' = [ctx EXCEPT !.ret = Some(Err(r.value))]
                     /\ pc' = "parsed"
                     /\ UNCHANGED opcodes
    /\ UNCHANGED <<parsed, analyzer, updates, index, result,
                   codegen, fs, output, visited>>

\* compile: `Err(err) => return Err(err)`
ParseFailed ==
    /\ pc = "parsed"
    /\ output' = Some(ctx.ret[1])
    /\ pc' = "exit"
    /\ UNCHANGED <<opcodes, parsed, analyzer, updates, index, result,
                   ctx, codegen, fs, visited>>

\* compile: `if !semantic_analyze(&mut stats) { return Err(Fatal(Semantic)) }`
Semantic ==
    /\ Returned(FALSE)
    /\ output' = Some(Err(Fatal(ParseError("Semantic", ""))))
    /\ pc' = "exit"
    /\ UNCHANGED <<opcodes, parsed, analyzer, updates, index, result,
                   ctx, codegen, fs, visited>>

\* a compile that generates whatever the analysis returned
Generating_unchecked == pc = "done" /\ result # None

\* the call codegen.codegen(stats) after a successful analysis
Generating == pc = "done" /\ result = Some(TRUE)

\* CodeGen::codegen up to its loop: the target directory, then the modules
Codegen ==
    /\ Generating
    /\ \E on \in BOOLEAN, created \in BOOLEAN,
          order \in HashOrders(apply_attrs_of(opcodes)) :
          LET self == CodeGen_with_serde(codegen, on)
              serde == gen_serde_mod(opcodes, order)
          IN  IF ~fs.exists /\ ~created
              THEN /\ codegen' = [self EXCEPT
                                    !.ret = Some(Err(io_error("create_dir_all", "./")))]
                   /\ pc' = "generated"
                   /\ UNCHANGED fs
              ELSE /\ fs' = IF fs.exists THEN fs ELSE create_dir_all(fs)
                   /\ IF self.with_serde /\ serde.panic
                      THEN pc' = "panic" /\ codegen' = self
                      ELSE /\ codegen' = [self EXCEPT
                                            !.mods = mods_of(self, opcodes, serde.impls)]
                           /\ pc' = "codegen"
    /\ UNCHANGED <<opcodes, parsed, analyzer, updates, index, result,
                   ctx, output, visited>>

\* CodeGen::codegen: one turn of `for (name, codes) in mods`
WriteMod ==
    /\ pc = "codegen"
    /\ codegen.mods # << >>
    /\ \E io \in IoOutcomes :
          LET mod == Head(codegen.mods)
              r == write_and_fmt_rs(fs, mod.name, mod.codes, io)
          IN  /\ fs' = r.fs
              /\ IF r.ret.ok
                 THEN /\ codegen' = [codegen EXCEPT !.mods = Tail(@),
                                                    !.impls = Append(@, mod.name)]
                      /\ pc' = "codegen"
                 ELSE /\ codegen' = [codegen EXCEPT !.ret = Some(r.ret)]
                      /\ pc' = "generated"
    /\ UNCHANGED <<opcodes, parsed, analyzer, updates, index, result,
                   ctx, output, visited>>

\* CodeGen::codegen after the loop: mod.rs, then Ok(())
WriteIndex ==
    /\ pc = "codegen"
    /\ codegen.mods = << >>
    /\ \E io \in IoOutcomes :
          LET r == write_and_fmt_rs(fs, "mod", index_mod(codegen.impls), io)
          IN  /\ fs' = r.fs
              /\ codegen' = [codegen EXCEPT !.ret = Some(r.ret)]
              /\ pc' = "generated"
    /\ UNCHANGED <<opcodes, parsed, analyzer, updates, index, result,
                   ctx, output, visited>>

\* compile: `Err(err) => return Err(Fatal(Io(err.to_string())))`
Io ==
    /\ pc = "generated"
    /\ codegen.ret # None
    /\ ~codegen.ret[1].ok
    /\ output' = Some(Err(Fatal(ParseError("Io", to_string(codegen.ret[1].value)))))
    /\ pc' = "exit"
    /\ UNCHANGED <<opcodes, parsed, analyzer, updates, index, result,
                   ctx, codegen, fs, visited>>

\* compile: Ok(())
Succeed ==
    /\ pc = "generated"
    /\ codegen.ret # None
    /\ codegen.ret[1].ok
    /\ output' = Some(Ok(<< >>))
    /\ pc' = "exit"
    /\ UNCHANGED <<opcodes, parsed, analyzer, updates, index, result,
                   ctx, codegen, fs, visited>>

NextCompile ==
    \/ SourceCompile \/ Begin \/ ParseStatement \/ ParseFailed
    \/ BuildIndex \/ Check \/ Update \/ Return \/ Semantic
    \/ Codegen \/ WriteMod \/ WriteIndex \/ Io \/ Succeed

SpecCompile == InitSource /\ [][NextCompile]_vars

NextParse == Source \/ Begin \/ ParseStatement

SpecParse == InitSource /\ [][NextParse]_vars

----------------------------------------------------------------------------
(* Claims about compile and CodeGen::codegen, under SpecCompile *)

\* parse returned Ok
ParseSucceeded == ctx.ret # None /\ ctx.ret[1].ok

\* semantic_analyze has been entered
AnalysisStarted == pc \in {"check", "return", "done"} \/ result # None

\* CodeGen::codegen has been entered
GenerationStarted ==
    \/ pc \in {"codegen", "generated"}
    \/ fs.ops # << >>
    \/ codegen.ret # None

\* nothing was created or written below the target
Untouched(files) == files.ops = << >> /\ files.files = << >>

\* the paths of the std::fs::write calls made so far, in order
RECURSIVE written_paths(_)
written_paths(ops) ==
    IF ops = << >> THEN << >>
    ELSE (IF Head(ops)[1] = "write" THEN <<Head(ops)[2]>> ELSE << >>)
         \o written_paths(Tail(ops))

IsPrefix(s, t) == Len(s) <= Len(t) /\ s = SubSeq(t, 1, Len(s))

\* the artifacts of a run, in the order codegen writes them
Artifacts(self) ==
    <<"opcode">> \o (IF self.with_serde THEN <<"serde">> ELSE << >>) \o <<"mod">>

\* C11: compile runs parse, then analysis, then generation, each only after
\* the one before succeeded.  A parse error is returned as it is, with no
\* analysis and no generation; a failed analysis returns Semantic and leaves
\* the file system untouched; a failed generation returns Io with the
\* error's message; Ok(()) is returned only when parse, analysis and
\* generation all succeeded.
CompileStagesInOrder ==
    /\ AnalysisStarted => ParseSucceeded
    /\ GenerationStarted => ParseSucceeded /\ result = Some(TRUE)
    /\ output # None =>
         IF output[1].ok
         THEN /\ ParseSucceeded
              /\ result = Some(TRUE)
              /\ codegen.ret = Some(Ok(<< >>))
         ELSE IF ~ParseSucceeded
         THEN /\ output = ctx.ret
              /\ ~AnalysisStarted
              /\ ~GenerationStarted
              /\ Untouched(fs)
         ELSE IF result = Some(FALSE)
         THEN /\ output = Some(Err(Fatal(ParseError("Semantic", ""))))
              /\ ~GenerationStarted
              /\ Untouched(fs)
         ELSE /\ result = Some(TRUE)
              /\ codegen.ret # None
              /\ ~codegen.ret[1].ok
              /\ output = Some(Err(Fatal(ParseError("Io",
                                   to_string(codegen.ret[1].value)))))

\* compile returned Ok(()) with the three stages behind it
CompileReturnedOk ==
    /\ output = Some(Ok(<< >>))
    /\ Len(opcodes) >= 2
    /\ "mod" \in DOMAIN fs.files

\* C12: codegen creates the target directory when it is absent; the files
\* are written in the order opcode, serde (if and only if with_serde), mod,
\* each one formatted right after its write; the index declares exactly
\* the modules written before it, so every module it names is a file.
IndexDeclaresWrittenModules ==
    /\ written_paths(fs.ops) # << >> => fs.exists
    /\ IsPrefix(written_paths(fs.ops), Artifacts(codegen))
    /\ \A i \in 1..Len(fs.ops) :
          /\ fs.ops[i][1] = "create_dir_all" => i = 1
          /\ fs.ops[i][1] = "rustfmt" =>
                i > 1 /\ fs.ops[i - 1] = <<"write", fs.ops[i][2]>>
          /\ fs.ops[i][1] = "write" /\ i < Len(fs.ops) =>
                fs.ops[i + 1] = <<"rustfmt", fs.ops[i][2]>>
    /\ DOMAIN fs.files = Range(written_paths(fs.ops))
    /\ "mod" \in DOMAIN fs.files =>
          /\ written_paths(fs.ops) = Artifacts(codegen)
          /\ fs.files["mod"].content.mods
               = SubSeq(Artifacts(codegen), 1, Len(Artifacts(codegen)) - 1)
          /\ Range(fs.files["mod"].content.mods) \subseteq DOMAIN fs.files

\* a run that created the directory and wrote opcode, serde and the index
AllArtifactsWritten ==
    /\ fs.ops # << >>
    /\ fs.ops[1][1] = "create_dir_all"
    /\ written_paths(fs.ops) = <<"opcode", "serde", "mod">>
    /\ fs.files["mod"].content.mods = <<"opcode", "serde">>

\* the error of a rustfmt that could not be started, if codegen returned one
FormatterFailed ==
    /\ codegen.ret # None
    /\ ~codegen.ret[1].ok
    /\ codegen.ret[1].value.what = "run rustfmt"

\* a step leaves the files written before it as they are
KeepsEarlierFiles ==
    \A p \in DOMAIN fs.files :
        /\ p \in DOMAIN fs'.files
        /\ fs'.files[p] # fs.files[p] =>
              fs'.ops # << >> /\ fs'.ops[Len(fs'.ops)][2] = p

\* what codegen hands to write_and_fmt_rs for a path
IsContentOf(content, path) ==
    CASE path = "opcode" -> content = gen_opcode_mod(opcodes)
      [] path = "serde" ->
            \E order \in HashOrders(apply_attrs_of(opcodes)) :
                content = gen_serde_mod(opcodes, order).impls
      [] path = "mod" -> content = index_mod(codegen.impls)

\* C13: when rustfmt cannot be started for a file, the file is on disk with
\* the content handed to the write, codegen returns the error and compile
\* returns it as Io, the files written before are still there with their
\* content, and nothing is written afterwards (no index in particular).
FormatterFailureKeepsFiles ==
    /\ [](FormatterFailed =>
            LET path == codegen.ret[1].value.path
            IN  /\ path \in DOMAIN fs.files
                /\ IsContentOf(fs.files[path].content, path)
                /\ fs.ops[Len(fs.ops)] = <<"write", path>>
                /\ DOMAIN fs.files = Range(codegen.impls) \cup {path}
                /\ \A p \in Range(codegen.impls) :
                      IsContentOf(fs.files[p].content, p)
                /\ path # "mod" => "mod" \notin DOMAIN fs.files
                /\ pc \in {"generated", "exit"}
                /\ output # None =>
                      output = Some(Err(Fatal(ParseError("Io",
                                   to_string(codegen.ret[1].value))))))
    /\ [][KeepsEarlierFiles]_vars

\* rustfmt could not be started on serde.rs after opcode.rs was written and
\* formatted, and compile has returned
FormatterFailedOnSerde ==
    /\ FormatterFailed
    /\ codegen.ret[1].value.path = "serde"
    /\ "opcode" \in DOMAIN fs.files
    /\ fs.files["opcode"].formatted
    /\ output # None
----------------------------------------------------------------------------
(* Claims about the parser, under SpecParse *)

\* the parser stands at a statement that starts with the keyword
StandsAt(keyword) ==
    /\ pc = "parsing"
    /\ ensure_keyword(keyword, ctx.source,
                      parse_prefix(ctx.source, ctx.offset).pos).ok

\* the production parsed its statement, or failed with a fatal error
Settled(r) == r.ok \/ r.value.flow = "Fatal"

\* C20: a production that has consumed its leading keyword either parses
\* its statement or fails with a fatal error; it never reports a recoverable
\* miss, which would send Stat::parse on to the next alternative.
CommittedFailureIsFatal ==
    /\ StandsAt("group") => Settled(Group_parse(ctx.source, ctx.offset))
    /\ StandsAt("apply") => Settled(ApplyTo_parse(ctx.source, ctx.offset))
    /\ StandsAt("children") => Settled(ChildrenOf_parse(ctx.source, ctx.offset))
    /\ StandsAt("enum") => Settled(Enum_parse(ctx.source, ctx.offset))
    /\ \A keyword \in DOMAIN NodeKeywords :
          StandsAt(keyword) => Settled(parse_node(ctx.source, ctx.offset))
----------------------------------------------------------------------------
(* The serde generator called on an analyzed sequence, and the emitted     *)
(* visitors called by a deserializer                                       *)

\* gen_serde_mod(stats, "super::opcode::") after a successful analysis
GenSerde ==
    /\ Returned(TRUE)
    /\ \E order \in HashOrders(apply_attrs_of(opcodes)) :
          \E serde \in {gen_serde_mod(opcodes, order)} :
             IF serde.panic
             THEN pc' = "panic" /\ UNCHANGED codegen
             ELSE /\ pc' = "serde"
                  /\ codegen' = [codegen EXCEPT
                        !.mods = <<[name |-> "serde", codes |-> serde.impls]>>]
    /\ UNCHANGED <<opcodes, parsed, analyzer, updates, index, result,
                   ctx, fs, output, visited>>

\* the impls of the emitted serde module
Emitted == codegen.mods[1].codes

\* the impl of a trait for a type
ImplsOf(trait, type) ==
    {n \in 1..Len(Emitted) : Emitted[n].trait = trait /\ Emitted[n].for = type}

ImplOf(trait, type) == Emitted[CHOOSE n \in ImplsOf(trait, type) : TRUE]

\* a deserializer's call of a visitor method, with what it returned
Visit(call, args, ret) ==
    /\ visited' = Some([call |-> call, args |-> args, ret |-> ret])
    /\ UNCHANGED <<opcodes, parsed, analyzer, updates, index, pc, result,
                   ctx, codegen, fs, output>>

Visited(call) == visited # None /\ visited[1].call = call

\* deserializer.deserialize_opcode(V) calling V.visit_opcode(type_id, ..)
VisitOpcode ==
    /\ pc = "serde"
    /\ \E type_id \in 0..Len(opcodes) :
          Visit("visit_opcode", <<type_id>>,
                visit_opcode(ImplOf("Deserialize", "Opcode"), type_id))

----------------------------------------------------------------------------
(* Sources for the type ids: every kind of statement, two names, enums     *)
(* with one variant                                                        *)

MaxGenStats == 3

GenUniverse(idx) ==
    {NodeStat(tag, Node(idx, 0, name, None, Unit, << >>)) :
        tag \in AllNodeTags, name \in DupNames}
    \cup {EnumStat(idx, name, <<Node(idx, 10, "V", None, Unit, << >>)>>, << >>) :
            name \in DupNames}
    \cup {GroupStat(idx, "G", << >>)}
    \cup {LinkStat(tag, idx, <<"A">>, <<"B">>) : tag \in LinkTags}

ParseGen ==
    /\ Parsing(MaxGenStats)
    /\ \E stat \in GenUniverse(Len(opcodes)) : ParseStat(stat)

NextGen ==
    ParseGen \/ BuildIndex \/ Check \/ Update \/ Return \/ GenSerde \/ VisitOpcode

SpecGen == Init /\ [][NextGen]_vars

\* the declarations the generator emits a Serialize and a Deserialize for
Declares(stat) == stat.tag \in NodeTags \cup {"Enum"}

\* the type ids embedded in the Serialize impl of a declaration
SerializeTypeIds(impl) ==
    IF "call" \in DOMAIN impl THEN {impl.call.type_id}
    ELSE {impl.arms[v].call.type_id : v \in 1..Len(impl.arms)}

\* the patterns of the visit_opcode arms that delegate to a type
VisitOpcodeArms(type) ==
    LET clauses == ImplOf("Deserialize", "Opcode").visit_opcode_clauses
    IN  {clauses[n].pattern : n \in {m \in 1..Len(clauses) : clauses[m].delegate = type}}

\* C14: the type_id in the Serialize and in the Deserialize of a declaration,
\* and in the visit_opcode arm of an el, leaf or attr, is the zero-based
\* position of the declaration among all the statements; two declarations
\* have different type ids.
TypeIdIsStatementIndex ==
    pc = "serde" =>
        \A idx \in Indices(opcodes) :
            LET stat == At(opcodes, idx)
                type == stat.node.ident.name
            IN  Declares(stat) =>
                  /\ Cardinality(ImplsOf("Serialize", type)) = 1
                  /\ Cardinality(ImplsOf("Deserialize", type)) = 1
                  /\ SerializeTypeIds(ImplOf("Serialize", type)) = {idx}
                  /\ ImplOf("Deserialize", type).call.type_id = idx
                  /\ VisitOpcodeArms(type)
                       = IF stat.tag \in {"Element", "Leaf", "Attr"}
                         THEN {idx} ELSE {}

\* an enum declared third, after a group and a mixin, got its impls
EnumAfterOtherStatements ==
    /\ pc = "serde"
    /\ Len(opcodes) = 3
    /\ opcodes[1].tag \in {"Group", "Mixin"}
    /\ opcodes[2].tag \in {"Group", "Mixin", "ApplyTo"}
    /\ opcodes[3].tag = "Enum"
    /\ SerializeTypeIds(ImplOf("Serialize", opcodes[3].node.ident.name)) = {2}

\* C17: visit_opcode(type_id) delegates to the Deserialize of the el, leaf
\* or attr declared at position type_id and wraps the value in Element, Leaf
\* or Attr after the kind of that declaration; any other type_id, out of
\* range or the position of another kind of statement, is UnknownType.
VisitOpcodeDelegatesByIndex ==
    Visited("visit_opcode") =>
        LET type_id == visited[1].args[1]
        IN  IF /\ type_id \in Indices(opcodes)
               /\ At(opcodes, type_id).tag \in {"Element", "Leaf", "Attr"}
            THEN visited[1].ret =
                    Ok([opcode |-> At(opcodes, type_id).tag,
                        deserialize |-> At(opcodes, type_id).node.ident.name])
            ELSE visited[1].ret = Err(UnknownType(type_id))

\* visit_opcode delegated to a leaf declared after a group and an enum
VisitedLeafAtTwo ==
    /\ Visited("visit_opcode")
    /\ visited[1].args = <<2>>
    /\ visited[1].ret.ok
    /\ visited[1].ret.value.opcode = "Leaf"
    /\ opcodes[1].tag = "Group"
    /\ opcodes[2].tag = "Enum"
----------------------------------------------------------------------------
(* Sources for the field names: an el, a data or an enum variant with      *)
(* named fields (plain, in snake case, renamed) or positional fields       *)

MaxFieldStats == 1

MaxFields == 2

NamedFields(idx) ==
    {NamedField(Ident(<<idx, 2>>, "x"), Prim(<<idx, 3>>, "string"), << >>),
     NamedField(Ident(<<idx, 2>>, "font_size"), Prim(<<idx, 3>>, "string"), << >>),
     NamedField(Ident(<<idx, 2>>, "x"), Prim(<<idx, 3>>, "string"),
                <<Property(<<Call(Ident(<<idx, 1>>, "rename"), <<"w">>)>>)>>)}

FieldLists(idx) ==
    {Named(items) : items \in SeqsUpTo(NamedFields(idx), 1, MaxFields)}
    \cup {Unnamed(items) :
            items \in SeqsUpTo({UnnamedField(Prim(<<idx, 3>>, "string"))},
                               1, MaxFields)}

FieldUniverse(idx) ==
    {NodeStat(tag, Node(idx, 0, "N", None, fields, << >>)) :
        tag \in {"Element", "Data"}, fields \in FieldLists(idx)}
    \cup {EnumStat(idx, "E", <<Node(idx, 10, "V", None, fields, << >>)>>, << >>) :
            fields \in FieldLists(idx)}

ParseField ==
    /\ Parsing(MaxFieldStats)
    /\ \E stat \in FieldUniverse(Len(opcodes)) : ParseStat(stat)

NextField == ParseField \/ BuildIndex \/ Check \/ Update \/ Return \/ GenSerde

SpecField == Init /\ [][NextField]_vars

\* the names of a sequence of serialize_field or deserialize_field calls
NamesPassed(calls) == [n \in 1..Len(calls) |-> calls[n].name]

\* the display names of a field list, None for a positional field
DisplayNames(fields) ==
    [n \in 1..Len(fields.items) |-> Field_display_name(fields.items[n])]

\* the Serialize and the Deserialize of an el, leaf, attr or data pass the
\* display names of its fields
NodeFieldNamesAgree(node) ==
    LET type == node.ident.name
    IN  /\ NamesPassed(ImplOf("Serialize", type).stats) = DisplayNames(node.fields)
        /\ NamesPassed(ImplOf("Deserialize", type).clauses)
             = DisplayNames(node.fields)

\* the Deserialize of an enum passes the display names of each variant's
\* fields, in visit_enum and in visit_enum_with
EnumDeserializeNames(enum) ==
    LET impl == ImplOf("Deserialize", enum.ident.name)
    IN  \A v \in 1..Len(enum.fields) :
            /\ NamesPassed(impl.idxs[v].body.clauses)
                 = DisplayNames(enum.fields[v].fields)
            /\ NamesPassed(impl.names[v].body.clauses)
                 = DisplayNames(enum.fields[v].fields)

\* the Serialize of an enum passes the display names of each variant's fields
EnumSerializeNames(enum) ==
    LET impl == ImplOf("Serialize", enum.ident.name)
    IN  \A v \in 1..Len(enum.fields) :
            NamesPassed(impl.arms[v].stats) = DisplayNames(enum.fields[v].fields)

\* C15: for every field of every declaration, enum variants included, the
\* name passed to serialize_field and the name passed to deserialize_field
\* at the field's index are both the field's display name: the rename value
\* if there is one, else the identifier in lower camel case, and no name for
\* a positional field.
FieldNamesAreDisplayNames ==
    pc = "serde" =>
        \A idx \in Indices(opcodes) :
            LET stat == At(opcodes, idx)
            IN  /\ stat.tag \in NodeTags => NodeFieldNamesAgree(stat.node)
                /\ stat.tag = "Enum" =>
                      /\ EnumDeserializeNames(stat.node)
                      /\ EnumSerializeNames(stat.node)
----------------------------------------------------------------------------
(* Sources for the enum visitor: one enum of up to MaxVariants variants,   *)
(* variants of distinct identifiers, a variant being A, B, a, or B renamed  *)
(* to the display name of A                                                *)

MaxEnumStats == 1

MaxVariants == 2

Variants(idx) ==
    {Node(idx, 10, "A", None, Unit, << >>),
     Node(idx, 10, "B", None, Unit, << >>),
     Node(idx, 10, "a", None, Unit, << >>),
     Node(idx, 10, "B", None, Unit,
          <<Property(<<Call(Ident(<<idx, 1>>, "rename"), <<"a">>)>>)>>)}

EnumUniverse(idx) ==
    {EnumStat(idx, "E", variants, << >>) :
        variants \in {vs \in SeqsUpTo(Variants(idx), 0, MaxVariants) :
                        \A i, j \in 1..Len(vs) :
                            vs[i].ident.name = vs[j].ident.name => i = j}}

ParseEnum ==
    /\ Parsing(MaxEnumStats)
    /\ \E stat \in EnumUniverse(Len(opcodes)) : ParseStat(stat)

\* deserialize_enum calling V.visit_enum(variant_index, ..)
VisitEnum ==
    /\ pc = "serde"
    /\ \E idx \in Indices(opcodes), variant_index \in 0..MaxVariants :
          /\ At(opcodes, idx).tag = "Enum"
          /\ Visit("visit_enum", <<idx, variant_index>>,
                   visit_enum(ImplOf("Deserialize", At(opcodes, idx).node.ident.name),
                              variant_index))

\* deserialize_enum calling V.visit_enum_with(variant, ..)
VisitEnumWith ==
    /\ pc = "serde"
    /\ \E idx \in Indices(opcodes), variant \in {"a", "b", "zz"} :
          /\ At(opcodes, idx).tag = "Enum"
          /\ Visit("visit_enum_with", <<idx, variant>>,
                   visit_enum_with(ImplOf("Deserialize",
                                          At(opcodes, idx).node.ident.name),
                                   variant))

NextEnum ==
    \/ ParseEnum \/ BuildIndex \/ Check \/ Update \/ Return
    \/ GenSerde \/ VisitEnum \/ VisitEnumWith

SpecEnum == Init /\ [][NextEnum]_vars

\* the value built is the variant declared at the position (from 0)
Builds(ret, enum, position) ==
    /\ ret.ok
    /\ ret.value.position = position
    /\ ret.value.variant = enum.fields[position + 1].ident.name

\* the positions of the variants with a display name
VariantsNamed(enum, name) ==
    {v \in 0..(Len(enum.fields) - 1) :
        Node_display_name(enum.fields[v + 1]) = Some(name)}

\* visit_enum(i) builds the i-th variant, or is UnknownVariantIndex
VisitEnumByIndex ==
    Visited("visit_enum") =>
        LET enum == At(opcodes, visited[1].args[1]).node
            i == visited[1].args[2]
        IN  IF i < Len(enum.fields)
            THEN Builds(visited[1].ret, enum, i)
            ELSE visited[1].ret =
                    Err(UnknownVariantIndex(Node_display_name(enum)[1], i))

\* visit_enum_with(name) builds a variant with that display name, or is
\* UnknownVariant when there is none
VisitEnumByName ==
    Visited("visit_enum_with") =>
        LET enum == At(opcodes, visited[1].args[1]).node
            name == visited[1].args[2]
        IN  IF VariantsNamed(enum, name) # {}
            THEN /\ visited[1].ret.ok
                 /\ visited[1].ret.value.position \in VariantsNamed(enum, name)
            ELSE visited[1].ret =
                    Err(UnknownVariant(Node_display_name(enum)[1], name))

\* what the Serialize arm of each variant emits, index and name, selects
\* that variant in the Deserialize
EmittedVariantSelectsItself ==
    pc = "serde" =>
        \A idx \in Indices(opcodes) :
            At(opcodes, idx).tag = "Enum" =>
                LET enum == At(opcodes, idx).node
                    ser == ImplOf("Serialize", enum.ident.name)
                    de == ImplOf("Deserialize", enum.ident.name)
                IN  \A v \in 1..Len(enum.fields) :
                        /\ Builds(visit_enum(de, ser.arms[v].call.idx), enum, v - 1)
                        /\ Builds(visit_enum_with(de, ser.arms[v].call.variant),
                                  enum, v - 1)

\* C16: visit_enum(i) builds the i-th declared variant for 0 <= i < n and
\* returns UnknownVariantIndex(enum display name, i) otherwise;
\* visit_enum_with(name) builds the variant whose display name is name and
\* returns UnknownVariant(enum display name, name) when there is none; and
\* the index and the name the serializer emits for a variant select that
\* same variant.
EnumDispatchSelectsVariant ==
    /\ VisitEnumByIndex
    /\ VisitEnumByName
    /\ EmittedVariantSelectsItself
----------------------------------------------------------------------------
(* Sources for the attribute routing: el N, leaf M, attr Fill with a field *)
(* color, attr Stroke renamed "a" with a field width, then apply           *)
(* statements of one or two attributes to one or two targets               *)

AttrDecls(idx) ==
    <<NodeStat("Element", Node(idx, 0, "N", None, Unit, << >>)),
      NodeStat("Leaf", Node(idx, 0, "M", None, Unit, << >>)),
      NodeStat("Attr", Node(idx, 0, "Fill", None,
                  Named(<<NamedField(Ident(<<idx, 2>>, "color"),
                                     Prim(<<idx, 3>>, "string"), << >>)>>),
                  << >>)),
      NodeStat("Attr", Node(idx, 0, "Stroke", None,
                  Named(<<NamedField(Ident(<<idx, 2>>, "width"),
                                     Prim(<<idx, 3>>, "string"), << >>)>>),
                  <<Property(<<Call(Ident(<<idx, 1>>, "rename"), <<"a">>)>>)>>))>>

\* the statements of a source: the declarations, then the apply statements
MaxAttrStats == 6

AttrsUniverse(idx) ==
    IF idx < Len(AttrDecls(idx)) THEN {AttrDecls(idx)[idx + 1]}
    ELSE {LinkStat("ApplyTo", idx, from, to) :
            from \in {<<"Fill">>, <<"Stroke">>, <<"Stroke", "Fill">>},
            to \in {<<"N">>, <<"N", "M">>}}

ParseAttrs ==
    /\ Parsing(MaxAttrStats)
    /\ \E stat \in AttrsUniverse(Len(opcodes)) : ParseStat(stat)

\* the names deserializer.attrs() yields, at most MaxAttrNames of them
MaxAttrNames == 2

AttrNames == {"a", "color", "width", "zz"}

\* deserialize_node calling V.visit_opcode_with_attrs(name, ..); the call
\* takes the visitor by value, so a visitor is called once
VisitOpcodeWithAttrs ==
    /\ pc = "serde"
    /\ visited = None
    /\ \E name \in {"n", "m", "zz"},
          attr_names \in SeqsUpTo(AttrNames, 0, MaxAttrNames),
          bad \in {{}, {"a"}, {"n"}} :
          \E iter \in Orders(attrs_inserted(ImplOf("Deserialize", "Opcode"),
                                            name, attr_names)) :
             Visit("visit_opcode_with_attrs", <<name, attr_names, bad>>,
                   visit_opcode_with_attrs(ImplOf("Deserialize", "Opcode"),
                                           name, attr_names, iter, bad))

NextAttrs ==
    \/ ParseAttrs \/ BuildIndex \/ Check \/ Update \/ Return
    \/ GenSerde \/ VisitOpcodeWithAttrs

SpecAttrs == Init /\ [][NextAttrs]_vars

\* the generator alone
NextRouting ==
    ParseAttrs \/ BuildIndex \/ Check \/ Update \/ Return \/ GenSerde

SpecRouting == Init /\ [][NextRouting]_vars

\* the declaration of kind `tags` with a display name
Displayed(tags, name) ==
    {idx \in Indices(opcodes) :
        /\ At(opcodes, idx).tag \in tags
        /\ Node_display_name(At(opcodes, idx).node) = Some(name)}

\* an apply statement relates the attr declared at `attr` to the node
\* declared at `target`
Applied(attr, target) ==
    \E idx \in Indices(opcodes) :
        /\ At(opcodes, idx).tag = "ApplyTo"
        /\ \E k \in 1..Len(At(opcodes, idx).node.from) :
              At(opcodes, idx).node.from[k].name = At(opcodes, attr).node.ident.name
        /\ \E k \in 1..Len(At(opcodes, idx).node.to) :
              At(opcodes, idx).node.to[k].name = At(opcodes, target).node.ident.name

\* the name is the display name of the attr, or of one of its fields
NamesAttr(attr_name, attr) ==
    \/ Node_display_name(At(opcodes, attr).node) = Some(attr_name)
    \/ \E n \in 1..Len(At(opcodes, attr).node.fields.items) :
          Field_display_name(At(opcodes, attr).node.fields.items[n]) = Some(attr_name)

\* the attrs an attribute name may select for the node named `name`
Selectable(name, attr_name) ==
    {attr \in Indices(opcodes) :
        /\ At(opcodes, attr).tag = "Attr"
        /\ NamesAttr(attr_name, attr)
        /\ \E target \in Displayed({"Element", "Leaf", "Attr"}, name) :
              Applied(attr, target)}

\* the display names of the kinds the attribute names select
SelectedKinds(name, attr_names) ==
    {Node_display_name(At(opcodes, attr).node)[1] :
        attr \in UNION {Selectable(name, attr_names[n]) : n \in 1..Len(attr_names)}}

StrictlyAscending(names) ==
    \A i, j \in 1..Len(names) : i < j => str_lt(names[i], names[j])

\* C18: visit_opcode_with_attrs(name, d), when no deserialize_attr fails,
\* returns one deserialize_attr result per attribute kind selected from
\* d.attrs(), in ascending order of display name and without repeats, and
\* then the deserialize_attr(name) result as the last entry; a kind is
\* selected only if an apply statement relates it to the node named `name`
\* and an attribute name is its display name or the display name of one of
\* its fields.  A failing deserialize_attr is the only way to an error.
AttrsExpandInOrder ==
    Visited("visit_opcode_with_attrs") =>
        LET name == visited[1].args[1]
            attr_names == visited[1].args[2]
            bad == visited[1].args[3]
            ret == visited[1].ret
            kinds == IF ret.ok THEN SubSeq(ret.value, 1, Len(ret.value) - 1)
                     ELSE << >>
        IN  IF ret.ok
            THEN /\ Len(ret.value) >= 1
                 /\ ret.value[Len(ret.value)] = name
                 /\ StrictlyAscending(kinds)
                 /\ {kinds[n] : n \in 1..Len(kinds)} = SelectedKinds(name, attr_names)
                 /\ \A n \in 1..Len(ret.value) : ret.value[n] \notin bad
            ELSE /\ ret.value.error = "deserialize_attr"
                 /\ ret.value.name \in bad
                 /\ ret.value.name \in SelectedKinds(name, attr_names) \cup {name}

\* both attributes were selected for n, one by its display name and one by
\* a field, and came back in the order of the display names "a", "fill"
BothAttrsSelected ==
    /\ Visited("visit_opcode_with_attrs")
    /\ visited[1].args[1] = "n"
    /\ visited[1].args[2] = <<"color", "a">>
    /\ visited[1].ret = Ok(<<"a", "fill", "n">>)

\* the elements of a set of strings in ascending order
Ascending(S) == CHOOSE seq \in Orders(S) : StrictlyAscending(seq)

\* the routing table of the emitted visit_opcode_with_attrs
Routing == ImplOf("Deserialize", "Opcode").fileds_to_attrs

\* the outer arms: one per target of an apply statement, in ascending order
\* of the target identifiers, each matching the display name of its target
OuterArmsSorted ==
    LET apply_attrs == apply_attrs_of(opcodes)
        keys == Ascending(DOMAIN apply_attrs)
    IN  /\ Len(Routing) = Len(keys)
        /\ \A n \in 1..Len(keys) :
              Routing[n].pattern = display_names_of(opcodes)[keys[n]]

\* the inner arms of a target: one group per applied attribute, the groups
\* in ascending order of the attribute identifiers; a group is the display
\* name of the attribute and then the display names of its fields
InnerArmsSorted ==
    LET apply_attrs == apply_attrs_of(opcodes)
        keys == Ascending(DOMAIN apply_attrs)
    IN  \A n \in 1..Len(keys) :
            Routing[n].arms =
                attrs_clauses(Ascending(apply_attrs[keys[n]]),
                              attr_fields_of(opcodes), display_names_of(opcodes))

\* the positions of the declarations, ascending
Declarations == {idx \in Indices(opcodes) : Declares(At(opcodes, idx))}

\* the impls of the declarations come in statement order, Serialize before
\* Deserialize, and the two Opcode impls last
ImplsInStatementOrder ==
    /\ Len(Emitted) = 2 * Cardinality(Declarations) + 2
    /\ \A idx \in Declarations :
          LET k == Cardinality({d \in Declarations : d < idx})
          IN  /\ Emitted[2 * k + 1].trait = "Serialize"
              /\ Emitted[2 * k + 1].for = At(opcodes, idx).node.ident.name
              /\ Emitted[2 * k + 2].trait = "Deserialize"
              /\ Emitted[2 * k + 2].for = At(opcodes, idx).node.ident.name
    /\ Emitted[Len(Emitted) - 1].for = "Opcode"
    /\ Emitted[Len(Emitted)].for = "Opcode"

\* the arms of visit_opcode come in statement order
VisitOpcodeArmsInStatementOrder ==
    LET clauses == ImplOf("Deserialize", "Opcode").visit_opcode_clauses
    IN  \A i, j \in 1..Len(clauses) : i < j => clauses[i].pattern < clauses[j].pattern

\* C19: whatever order the hash tables yield their entries in, gen_serde_mod
\* emits the same output for the same analyzed statements; the outer routing
\* arms, one per apply target, and the inner groups, one per applied
\* attribute, are in ascending order of the identifiers, and the impls and
\* the visit_opcode arms follow the order of the statements.
GenerationIsDeterministic ==
    pc = "serde" =>
        /\ \A order \in HashOrders(apply_attrs_of(opcodes)) :
              /\ ~gen_serde_mod(opcodes, order).panic
              /\ gen_serde_mod(opcodes, order).impls = Emitted
        /\ OuterArmsSorted
        /\ InnerArmsSorted
        /\ ImplsInStatementOrder
        /\ VisitOpcodeArmsInStatementOrder

\* two targets with two attributes each: the hash tables have more than one
\* order to yield
TwoTargetsTwoAttrs ==
    /\ pc = "serde"
    /\ DOMAIN apply_attrs_of(opcodes) = {"M", "N"}
    /\ apply_attrs_of(opcodes)["M"] = {"Fill", "Stroke"}
    /\ Cardinality(HashOrders(apply_attrs_of(opcodes))) = 8
    /\ Len(Routing) = 2
    /\ Routing[1].pattern = "m"
----------------------------------------------------------------------------
(* The error kinds of the link statements, under SpecParse *)

\* the offset after the prefix and the leading keyword of the statement the
\* parser stands at
AfterKeyword == parse_prefix(ctx.source, ctx.offset).pos + 1

\* no endpoint starts here: neither an identifier nor a `(`
MissingEndpoint(src, pos) ==
    /\ ~Ident_parse(src, pos).ok
    /\ ~ensure_char("(", src, pos).ok

\* the token expected is not the next one
Missing(token, src, pos) == ~ensure_keyword(token, src, pos).ok

\* the production failed with the fatal error of the kind
FailsWith(r, kind, detail) ==
    /\ ~r.ok
    /\ r.value = Fatal(ParseError(kind, detail))

\* the expectations of `children from of to ;` after the keyword, each met
\* where the ones before it were satisfied
ChildrenOfExpectations(src, pos, r) ==
    /\ MissingEndpoint(src, pos) => FailsWith(r, "ChildrenOf", "From")
    /\ parse_endpoint(src, pos).ok =>
         \E p2 \in {parse_endpoint(src, pos).pos} :
            /\ Missing("of", src, p2) => FailsWith(r, "ChildrenOf", "Of")
            /\ ~Missing("of", src, p2) =>
                 /\ MissingEndpoint(src, p2 + 1) => FailsWith(r, "ChildrenOf", "To")
                 /\ parse_endpoint(src, p2 + 1).ok =>
                      (Missing(";", src, parse_endpoint(src, p2 + 1).pos)
                          => FailsWith(r, "ChildrenOf", "End"))

\* the expectations of `apply from to target ;` once the from-endpoint is
\* parsed
ApplyToExpectations(src, pos, r) ==
    parse_endpoint(src, pos).ok =>
        \E p2 \in {parse_endpoint(src, pos).pos} :
           /\ Missing("to", src, p2) => FailsWith(r, "ApplyTo", "To")
           /\ ~Missing("to", src, p2) =>
                /\ MissingEndpoint(src, p2 + 1) => FailsWith(r, "ApplyTo", "Target")
                /\ parse_endpoint(src, p2 + 1).ok =>
                     (Missing(";", src, parse_endpoint(src, p2 + 1).pos)
                         => FailsWith(r, "ApplyTo", "End"))

\* the expectations of `group ident := (..) ;` once the identifier is parsed
GroupExpectations(src, pos, r) ==
    Ident_parse(src, pos).ok =>
        /\ Missing(":=", src, pos + 1) => FailsWith(r, "Group", "Assign")
        /\ (~Missing(":=", src, pos + 1) /\ parse_tuple_idents(src, pos + 2).ok) =>
             (Missing(";", src, parse_tuple_idents(src, pos + 2).pos)
                 => FailsWith(r, "Group", "End"))

ChildrenOfKinds ==
    StandsAt("children") =>
        ChildrenOfExpectations(ctx.source, AfterKeyword,
                               ChildrenOf_parse(ctx.source, ctx.offset))

ApplyToKinds ==
    StandsAt("apply") =>
        ApplyToExpectations(ctx.source, AfterKeyword,
                            ApplyTo_parse(ctx.source, ctx.offset))

GroupKinds ==
    StandsAt("group") =>
        GroupExpectations(ctx.source, AfterKeyword,
                          Group_parse(ctx.source, ctx.offset))

\* C21: a link statement that fails after its keyword fails with the kind of
\* the expectation that was not met: children: From, Of, To, End for a
\* missing from-endpoint, `of`, to-endpoint, `;`; apply: To, Target, End for
\* a missing `to`, target, `;`; group: Assign, End for a missing `:=`, `;`.
LinkErrorNamesExpectation ==
    /\ ChildrenOfKinds
    /\ ApplyToKinds
    /\ GroupKinds

----------------------------------------------------------------------------
(* The spans of the statements: sources of whole statements, with and      *)
(* without a property in front                                             *)

MaxSpanLen == 9

SpanTexts == StatementTexts \cup {<<"[p]">> \o text : text \in StatementTexts}

SourceSpan ==
    /\ Writing(MaxSpanLen)
    /\ \E text \in SpanTexts :
          Len(ctx.source) + Len(text) <= MaxSpanLen /\ WriteText(text)

NextSpan == SourceSpan \/ Begin \/ ParseStatement

SpecSpan == InitSource /\ [][NextSpan]_vars

\* the statement the parser is about to return
NextStat == Stat_parse(ctx.source, ctx.offset)

\* from the keyword, after the prefix, through the last token consumed
KeywordToEnd == Span(parse_prefix(ctx.source, ctx.offset).pos, NextStat.pos)

SpanCovers(tags) ==
    (pc = "parsing" /\ NextStat.ok /\ NextStat.value.tag \in tags)
        => NextStat.value.node.span = KeywordToEnd

LinkSpans == SpanCovers({"Group", "ApplyTo", "ChildrenOf"})

EnumSpans == SpanCovers({"Enum"})

NodeSpans == SpanCovers({"Element", "Leaf", "Attr", "Data", "Mixin"})

\* C22: the span of every statement the parser returns starts at the
\* keyword, after the comments and properties in front of it, and ends with
\* the terminating punctuation.
SpanFromKeywordToEnd == LinkSpans /\ EnumSpans /\ NodeSpans
----------------------------------------------------------------------------
(* The check pass against the order of the statements.  Sources: a mixin,  *)
(* a data that takes it, an element, a group of it, the two links through  *)
(* the group, a data with a field of a declared type or of the group, and  *)
(* an enum whose variant names the mixin                                   *)

MaxOrderStats == 3

OrderUniverse(idx) ==
    {NodeStat("Mixin", Node(idx, 0, "M", None,
                            Named(<<StringField(idx, 2, "x")>>), << >>)),
     NodeStat("Data", Node(idx, 0, "D", Some("M"),
                           Named(<<StringField(idx, 2, "w")>>), << >>)),
     NodeStat("Element", Node(idx, 0, "A", None, Unit, << >>)),
     GroupStat(idx, "G", <<"A">>),
     LinkStat("ApplyTo", idx, <<"G">>, <<"A">>),
     LinkStat("ChildrenOf", idx, <<"A">>, <<"G">>),
     EnumStat(idx, "E", <<Node(idx, 10, "V", Some("M"), Unit, << >>)>>, << >>),
     NodeStat("Data", Node(idx, 0, "T", None,
                  Named(<<NamedField(Ident(<<idx, 2>>, "x"),
                                     Data(Ident(<<idx, 3>>, "D")), << >>)>>), << >>)),
     NodeStat("Data", Node(idx, 0, "T", None,
                  Named(<<NamedField(Ident(<<idx, 2>>, "x"),
                                     Data(Ident(<<idx, 3>>, "G")), << >>)>>), << >>))}

ParseOrder ==
    /\ Parsing(MaxOrderStats)
    /\ \E stat \in OrderUniverse(Len(opcodes)) : ParseStat(stat)

NextOrder == ParseOrder \/ BuildIndex \/ Check \/ Update \/ Return

SpecOrder == Init /\ [][NextOrder]_vars

\* SemanticAnalyzer::check as one call: the walk from idx on with the
\* replacements collected so far, then the replacements written back; r is
\* what the body of the loop returned for the statement at idx
RECURSIVE check_from(_, _, _, _)
check_next(r, ops, idx, ups) ==
    IF r.panic
    THEN [self |-> r.self, opcodes |-> ops, panic |-> TRUE]
    ELSE check_from(r.self, ops, idx + 1, ups \o r.update)

check_from(self, ops, idx, ups) ==
    IF idx >= Len(ops)
    THEN [self |-> self, opcodes |-> apply_updates(ops, ups), panic |-> FALSE]
    ELSE check_next(check_stat(self, ops, idx, ops[idx + 1]), ops, idx, ups)

\* SemanticAnalyzer::analyze on a slice: the slice it leaves, whether it
\* aborted, and the value returned
analyzed(r) ==
    [opcodes |-> r.opcodes, panic |-> r.panic, ret |-> r.self.errors = 0]

analyze(ops) ==
    analyzed(check_from(build_index(SemanticAnalyzer_default, ops), ops, 0, << >>))

\* a statement without its spans
RECURSIVE TypeShape(_)
TypeShape(ty) ==
    IF ty.type \in {"ListOf", "ArrayOf"} THEN <<ty.type, TypeShape(ty.component)>>
    ELSE IF ty.type = "Data" THEN <<"Data", ty.ident.name>>
    ELSE <<ty.type>>

NamesOf(idents) == [n \in 1..Len(idents) |-> idents[n].name]

FieldsShape(fields) ==
    [shape |-> fields.shape,
     items |-> [n \in 1..Len(fields.items) |->
                  [name |-> NamesOf(fields.items[n].ident),
                   ty |-> TypeShape(fields.items[n].ty)]]]

NodeShape(node) ==
    [name |-> node.ident.name, mixin |-> NamesOf(node.mixin),
     fields |-> FieldsShape(node.fields)]

StatShape(stat) ==
    CASE stat.tag \in AllNodeTags ->
            [tag |-> stat.tag, node |-> NodeShape(stat.node)]
      [] stat.tag = "Enum" ->
            [tag |-> stat.tag, name |-> stat.node.ident.name,
             variants |-> [v \in 1..Len(stat.node.fields) |->
                             NodeShape(stat.node.fields[v])]]
      [] stat.tag = "Group" ->
            [tag |-> stat.tag, name |-> stat.node.ident.name,
             children |-> NamesOf(stat.node.children)]
      [] stat.tag \in LinkTags ->
            [tag |-> stat.tag, from |-> NamesOf(stat.node.from),
             to |-> NamesOf(stat.node.to)]

\* the statement as the parser builds it at another place of the source
StatAt(stat, idx) ==
    CHOOSE other \in OrderUniverse(idx) : StatShape(other) = StatShape(stat)

\* the orders of the statements that keep two declarations of one name in
\* the order they have: perm[k] is the new place of the k-th statement
Reorders(ops) ==
    {perm \in Orders(1..Len(ops)) :
        \A i, j \in 1..Len(ops) :
            (/\ i < j
             /\ IsDecl(ops[i]) /\ IsDecl(ops[j])
             /\ ops[i].node.ident.name = ops[j].node.ident.name)
                => perm[i] < perm[j]}

Inverse(perm) == [k \in 1..Len(perm) |-> CHOOSE n \in 1..Len(perm) : perm[n] = k]

\* the source with its statements in another order
Reordered(ops, perm) ==
    [k \in 1..Len(ops) |-> StatAt(ops[Inverse(perm)[k]], k - 1)]

\* the run on the reordered source ends as this run did, statement by
\* statement
SameAnalysis(perm) ==
    \E other \in {analyze(Reordered(parsed, perm))} :
        /\ other.panic = (pc = "panic")
        /\ pc = "done" =>
              /\ Some(other.ret) = result
              /\ \A k \in 1..Len(opcodes) :
                    StatShape(other.opcodes[perm[k]]) = StatShape(opcodes[k])

\* the slice is as parsed while the walk goes on
UntouchedDuringCheck == pc \in {"check", "panic"} => opcodes = parsed

\* the replacements are the ones computed against the slice as parsed
ReplacementsFromParsed ==
    pc = "done" => opcodes = analyze(parsed).opcodes

OrderIndependent ==
    pc \in {"done", "panic"} => \A perm \in Reorders(parsed) : SameAnalysis(perm)

\* C23: while the check pass walks the statements none of them is modified:
\* the replacements are collected and written back after the walk, so every
\* lookup sees the statements as parsed, and the result (the value returned
\* and every statement left) is the same wherever the mixin, group or type
\* a statement refers to is declared, before it or after it.
CheckDefersReplacements ==
    /\ UntouchedDuringCheck
    /\ ReplacementsFromParsed
    /\ OrderIndependent

\* a data took the fields of a mixin declared after it, and a link the
\* children of a group declared after it
ReferredBeforeDeclared ==
    /\ Returned(TRUE)
    /\ Len(opcodes) = 3
    /\ StatShape(parsed[1]) = StatShape(LinkStat("ApplyTo", 0, <<"G">>, <<"A">>))
    /\ parsed[2].tag = "Group"
    /\ parsed[3].tag = "Element"
    /\ NamesOf(opcodes[1].node.from) = <<"A">>
    /\ Cardinality(Reorders(parsed)) = 6

----------------------------------------------------------------------------
(* The assertion on Mixin statements: sources of mixin and el declarations *)
(* with and without a `mixin` clause, parsed and then analyzed             *)

MaxMixinLen == 10

MixinTexts ==
    {<<"mixin", "M", "{", "x", ":", "string", "}">>,
     <<"mixin", "R", "mixin", "M", "{", "x", ":", "string", "}">>,
     <<"mixin", "R", "mixin", "M", ";">>,
     <<"mixin", "M", ";">>,
     <<"el", "A", "mixin", "M", ";">>}

SourceMixin ==
    /\ Writing(MaxMixinLen)
    /\ \E text \in MixinTexts :
          Len(ctx.source) + Len(text) <= MaxMixinLen /\ WriteText(text)

NextMixin ==
    \/ SourceMixin \/ Begin \/ ParseStatement
    \/ BuildIndex \/ Check \/ Update \/ Return

SpecMixin == InitSource /\ [][NextMixin]_vars

\* the walk of check stands at a Mixin statement
ChecksMixin ==
    /\ pc = "check"
    /\ index < Len(opcodes)
    /\ opcodes[index + 1].tag = "Mixin"

\* C24: for every sequence the parser produces, node_check on a Mixin
\* statement returns no replacement: a Mixin declaration that reaches the
\* analyzer refers to no declared mixin, and the analysis never aborts on
\* the assertion of the Mixin arm.
MixinNeverRefersToMixin ==
    /\ ChecksMixin =>
          node_check(analyzer, opcodes, opcodes[index + 1].node).ret = None
    /\ pc # "panic"
----------------------------------------------------------------------------
(* Generation after a successful analysis, under SpecGen *)

\* the identifiers of the apply statements
ApplyIdents(ops) ==
    UNION {Endpoints(At(ops, idx)) :
             idx \in {n \in Indices(ops) : At(ops, n).tag = "ApplyTo"}}

\* C25: when semantic_analyze returned true the serde generator completes:
\* every identifier of an apply statement has an entry in the display-name
\* table, which holds the el, leaf and attr declarations, so neither lookup
\* of gen_fields_to_attrs fails.
SerdeGenerationCompletes ==
    Returned(TRUE) =>
        /\ \A ident \in ApplyIdents(opcodes) :
              ident.name \in DOMAIN display_names_of(opcodes)
        /\ \A order \in HashOrders(apply_attrs_of(opcodes)) :
              ~gen_serde_mod(opcodes, order).panic
----------------------------------------------------------------------------
(* What the analysis may change, under SpecOrder *)

\* the analysis has taken the slice over
Analyzing == pc \in {"check", "return", "done", "panic"}

\* the statement now differs from the parsed one at most in what the
\* analysis may rewrite: fields and mixin of a node, from and to of a link
FrameOf(now, before) ==
    /\ now.tag = before.tag
    /\ CASE before.tag \in NodeTags ->
               [now.node EXCEPT !.fields = before.node.fields,
                                !.mixin = before.node.mixin] = before.node
         [] before.tag \in LinkTags ->
               [now.node EXCEPT !.from = before.node.from,
                                !.to = before.node.to] = before.node
         [] OTHER -> now = before

\* C26: semantic_analyze, returning true or false, keeps the number and the
\* order of the statements, and the kind and the identifier of each: only
\* the fields and the mixin slot of an el, leaf, attr or data and the from
\* and to lists of a link may change; a Mixin, an Enum and a Group stay as
\* parsed.
AnalysisKeepsStatements ==
    Analyzing =>
        /\ Len(opcodes) = Len(parsed)
        /\ \A k \in 1..Len(parsed) :
              /\ FrameOf(opcodes[k], parsed[k])
              /\ IsDecl(parsed[k]) =>
                    opcodes[k].node.ident = parsed[k].node.ident

\* after a mixin, a data that took its fields and a link that was rewritten
DataAndLinkRewritten ==
    /\ pc = "done"
    /\ Len(parsed) = 3
    /\ parsed[1].tag = "Mixin"
    /\ parsed[2].tag = "Data"
    /\ parsed[2].node.mixin # None
    /\ opcodes[2].node.mixin = None
    /\ Len(opcodes[2].node.fields.items) = 2
    /\ parsed[3].tag = "ApplyTo"
    /\ opcodes[3] # parsed[3]
----------------------------------------------------------------------------
(* The two tables behind the lookups of node_check and expand_with_group.  *)
(* Sources: two names, each declared as a mixin, a group, an element and   *)
(* an enum, so that a name may be declared twice with different kinds; a   *)
(* node and a mixin that take a mixin; the two links                       *)

MaxInnerStats == 3

InnerNames == {"A", "B"}

InnerUniverse(idx) ==
    {NodeStat(tag, Node(idx, 0, name, None, Unit, << >>)) :
        tag \in {"Mixin", "Element"}, name \in InnerNames}
    \cup {GroupStat(idx, name, <<"B">>) : name \in InnerNames}
    \cup {EnumStat(idx, "A", << >>, << >>),
          NodeStat("Data", Node(idx, 0, "B", Some("A"), Unit, << >>)),
          NodeStat("Mixin", Node(idx, 0, "B", Some("A"), Unit, << >>)),
          LinkStat("ApplyTo", idx, <<"A">>, <<"B">>),
          LinkStat("ChildrenOf", idx, <<"B">>, <<"A">>)}

ParseInner ==
    /\ Parsing(MaxInnerStats)
    /\ \E stat \in InnerUniverse(Len(opcodes)) : ParseStat(stat)

NextInner == ParseInner \/ BuildIndex \/ Check \/ Update \/ Return

SpecInner == Init /\ [][NextInner]_vars

\* every index held by the table is the index of a statement of that kind
TableHolds(table, tag) ==
    \A name \in DOMAIN table :
        /\ table[name].index \in Indices(opcodes)
        /\ At(opcodes, table[name].index).tag = tag

\* the `inner error` arm of the check of the statement the walk stands at
InnerError(opcode) ==
    CASE opcode.tag \in AllNodeTags -> node_check(analyzer, opcodes, opcode.node).panic
      [] opcode.tag = "ApplyTo" -> apply_to_check(analyzer, opcodes, opcode).panic
      [] opcode.tag = "ChildrenOf" -> children_of_check(analyzer, opcodes, opcode).panic
      [] OTHER -> FALSE

\* C27: the two `inner error` aborts cannot happen, duplicate identifiers
\* included: the mixin table holds indexes of Mixin statements only and the
\* group table indexes of Group statements only, so the lookups of
\* node_check and expand_with_group land on a statement of the kind they
\* expect.
InnerErrorsUnreachable ==
    /\ TableHolds(analyzer.merger, "Mixin")
    /\ TableHolds(analyzer.digraph_analyzer, "Group")
    /\ (pc = "check" /\ index < Len(opcodes)) => ~InnerError(At(opcodes, index))

\* a name declared as a mixin and as a group, its symbol being neither the
\* mixin nor the node that takes the mixin, and the walk at that node
MixinTakenUnderDuplicate ==
    /\ pc = "check"
    /\ index < Len(opcodes)
    /\ At(opcodes, index).tag = "Data"
    /\ At(opcodes, index).node.mixin # None
    /\ "A" \in DOMAIN analyzer.merger
    /\ "A" \in DOMAIN analyzer.digraph_analyzer
    /\ analyzer.symbol_table["A"].index # analyzer.merger["A"].index
    /\ node_check(analyzer, opcodes, At(opcodes, index).node).ret # None
----------------------------------------------------------------------------
(* semantic_analyze called again on what it left, under SpecOrder *)

\* C28: when semantic_analyze has returned true, a second call on the
\* statements it left returns true as well and changes no statement.
AnalysisIsIdempotent ==
    Returned(TRUE) =>
        analyze(opcodes) = [opcodes |-> opcodes, panic |-> FALSE, ret |-> TRUE]

\* a successful analysis that expanded the group of an apply-to link: the
\* second call meets the expanded link
ExpandedLinkAnalyzedAgain ==
    /\ Returned(TRUE)
    /\ Len(parsed) = 3
    /\ parsed[3].tag = "ApplyTo"
    /\ opcodes[3] # parsed[3]
    /\ opcodes[3].node.from # << >>
    /\ analyze(opcodes).opcodes[3] = opcodes[3]
----------------------------------------------------------------------------
(* The emitted visit_opcode_with.  Sources: el, leaf and attr declarations *)
(* whose identifiers differ, some in case only, one renamed                *)

MaxNameStats == 2

NameUniverse(idx) ==
    {NodeStat(tag, Node(idx, 0, name, None, Unit, << >>)) :
        tag \in Umbrella, name \in {"A", "a", "B"}}
    \cup {NodeStat("Element", Node(idx, 0, "B", None, Unit,
              <<Property(<<Call(Ident(<<idx, 1>>, "rename"), <<"a">>)>>)>>))}

ParseName ==
    /\ Parsing(MaxNameStats)
    /\ \E stat \in NameUniverse(Len(opcodes)) : ParseStat(stat)

\* rt::serde::de::Error::UnknownTypeName
UnknownTypeName(name) == [error |-> "UnknownTypeName", name |-> name]

\* the emitted visit_opcode_with
visit_opcode_with(impl, name) ==
    LET arm == match(impl.visit_opcode_with_clauses, name)
    IN  IF arm # None
        THEN Ok([opcode |-> arm[1].from, deserialize |-> arm[1].delegate])
        ELSE Err(UnknownTypeName(name))

\* the names a serializer of the schema emits, and one it does not
OpcodeNames ==
    {Node_display_name(opcodes[n].node)[1] : n \in StatsTagged(opcodes, Umbrella)}
    \cup {"zz"}

\* a deserializer calling V.visit_opcode_with(name, ..)
VisitOpcodeWith ==
    /\ pc = "serde"
    /\ visited = None
    /\ \E name \in OpcodeNames :
          Visit("visit_opcode_with", <<name>>,
                visit_opcode_with(ImplOf("Deserialize", "Opcode"), name))

NextName ==
    \/ ParseName \/ BuildIndex \/ Check \/ Update \/ Return
    \/ GenSerde \/ VisitOpcodeWith

SpecName == Init /\ [][NextName]_vars

\* the el, leaf and attr declarations whose display name is `name`
DeclaredAs(name) ==
    {idx \in Indices(opcodes) :
        /\ At(opcodes, idx).tag \in Umbrella
        /\ Node_display_name(At(opcodes, idx).node)[1] = name}

\* C29: for every el, leaf or attr D of a successfully analyzed schema,
\* visit_opcode_with(display name of D) returns what visit_opcode(index of
\* D) returns, the delegation to D itself: no two such declarations have
\* the same display name arm.
NameDispatchAgreesWithIndex ==
    Visited("visit_opcode_with") =>
        \A idx \in DeclaredAs(visited[1].args[1]) :
            visited[1].ret = visit_opcode(ImplOf("Deserialize", "Opcode"), idx)
----------------------------------------------------------------------------
(* What parse returns, under SpecParse *)

\* parse returned Ok exactly when nothing of the source is left
OkIffConsumed ==
    ctx.ret # None => (ctx.ret[1].ok <=> remaining(ctx.source, ctx.offset) = 0)

\* C30: for every input, parse ends by returning a value and never by
\* aborting: Ok(statements) exactly when the whole input has been consumed
\* as statements, an error value when what is left is accepted by no
\* statement alternative.
ParseReturnsValue ==
    /\ pc # "panic"
    /\ OkIffConsumed
====
